---- MODULE Spec2Model ----
(***************************************************************************)
(* Model of the COPERT hot emission factor engine of src/copert.py        *)
(* (class Copert): the coefficient repository built by the constructor    *)
(* from two parameter files, and the four resolvers                       *)
(* HEFGasolinePassengerCar, HEFDieselPassengerCar,                        *)
(* HEFLightCommercialVehicle and HEFHeavyDutyVehicle.                     *)
(*                                                                         *)
(* Numbers.  A Python float is modelled as a decimal <<m, e>>, standing   *)
(* for m * 10^e, in normal form (m has no trailing zero, zero is          *)
(* <<0, 0>>), or as nan.  Sums, differences and products of decimals are  *)
(* computed exactly; powers, quotients, exponentials and logarithms are   *)
(* kept as terms: a returned factor is the term [f, x, k], the formula f  *)
(* applied to the arguments x in the order of the source's lambda, times  *)
(* the factors in k.  Two calls return the same float when they return    *)
(* the same term.  Floating-point rounding is not modelled.               *)
(***************************************************************************)
EXTENDS Integers, Sequences, FiniteSets, TLC

----------------------------------------------------------------------------
(* Vehicle classes of emission standard, passenger-car ladder. *)
class_PRE_ECE == 0
class_ECE_15_00_or_01 == 1
class_ECE_15_02 == 2
class_ECE_15_03 == 3
class_ECE_15_04 == 4
class_Improved_Conventional == 5
class_Open_loop == 6
class_Euro_1 == 7
class_Euro_2 == 8
class_Euro_3 == 9
class_Euro_3_GDI == 10
class_Euro_4 == 11
class_Euro_5 == 12
class_Euro_6 == 13
class_Euro_6c == 14

(* Heavy-duty ladder. *)
class_hdv_Conventional == 0
class_hdv_Euro_I == 1
class_hdv_Euro_II == 2
class_hdv_Euro_III == 3
class_hdv_Euro_IV == 4
class_hdv_Euro_V_EGR == 5
class_hdv_Euro_V_SCR == 6
class_hdv_Euro_VI == 7

engine_type_gasoline == 0
engine_type_diesel == 1
engine_type_LPG == 2

engine_capacity_less_1_4 == 0
engine_capacity_from_1_4_to_2 == 1
engine_capacity_more_2 == 2

vehicle_type_passenger_car == 0
vehicle_type_light_commercial_vehicule == 1
vehicle_type_heavy_duty_vehicle == 2
vehicle_type_bus == 3
vehicle_type_moped == 4
vehicle_type_motocycle == 5

hdv_type_gasoline_3_5 == 0
hdv_type_rigid_7_5 == 1
hdv_type_rigid_7_5_12 == 2
bus_type_urban_15 == 15

hdv_load_0 == 0
hdv_load_50 == 1
hdv_load_100 == 2

slope_0 == 0
slope_negative_6 == 1
slope_negative_4 == 2
slope_negative_2 == 3
slope_2 == 4
slope_4 == 5
slope_6 == 6

pollutant_CO == 0
pollutant_HC == 1
pollutant_NOx == 2
pollutant_PM == 3
pollutant_FC == 4
pollutant_VOC == 5

----------------------------------------------------------------------------
(* Floats: decimals <<m, e>> = m * 10^e, and nan (numpy.nan, "NAN"). *)
nan == <<0, 999>>

isnan(x) == x = nan

RECURSIVE Norm(_, _)
Norm(m, e) ==
  IF m = 0 THEN <<0, 0>>
  ELSE IF m % 10 = 0 THEN Norm(m \div 10, e + 1)
  ELSE <<m, e>>

(* The float of an integer. *)
Float(n) == Norm(n, 0)

(* m * 10^(e - k), for k <= e. *)
Shift(x, k) == x[1] * 10^(x[2] - k)

MinExp(x, y) == IF x[2] < y[2] THEN x[2] ELSE y[2]

(* Comparisons of floats: every comparison with nan is false. *)
Lt(x, y) == ~isnan(x) /\ ~isnan(y) /\ Shift(x, MinExp(x, y)) < Shift(y, MinExp(x, y))
Gt(x, y) == Lt(y, x)
Le(x, y) == ~isnan(x) /\ ~isnan(y) /\ Shift(x, MinExp(x, y)) <= Shift(y, MinExp(x, y))
Ge(x, y) == Le(y, x)
Eq(x, y) == ~isnan(x) /\ ~isnan(y) /\ Shift(x, MinExp(x, y)) = Shift(y, MinExp(x, y))

(* Float arithmetic: nan propagates. *)
Add(x, y) ==
  IF isnan(x) \/ isnan(y) THEN nan
  ELSE Norm(Shift(x, MinExp(x, y)) + Shift(y, MinExp(x, y)), MinExp(x, y))
Neg(x) == IF isnan(x) THEN nan ELSE <<0 - x[1], x[2]>>
Sub(x, y) == Add(x, Neg(y))
Mul(x, y) == IF isnan(x) \/ isnan(y) THEN nan ELSE Norm(x[1] * y[1], x[2] + y[2])

(* Python's builtin max(a, b) and min(a, b): a unless b compares greater (less). *)
max(a, b) == IF Gt(b, a) THEN b ELSE a
min(a, b) == IF Lt(b, a) THEN b ELSE a

(* int(x) of a float that is not nan: truncation towards zero. *)
int(x) ==
  IF x[2] >= 0 THEN x[1] * 10^x[2]
  ELSE IF x[1] >= 0 THEN x[1] \div 10^(0 - x[2])
  ELSE 0 - ((0 - x[1]) \div 10^(0 - x[2]))

(* General ranges of average speed by road type, km/h. *)
speed_type_urban == Float(60)
speed_type_rural == Float(90)
speed_type_highway == Float(130)

----------------------------------------------------------------------------
(* Returned values.  A term is nan as soon as one of its arguments is.    *)
NaNValue == [f |-> "nan", x |-> <<>>, k |-> <<>>]
None == [f |-> "None", x |-> <<>>, k |-> <<>>]

Term(f, x) ==
  IF \E i \in 1..Len(x) : isnan(x[i]) THEN NaNValue
  ELSE [f |-> f, x |-> x, k |-> <<>>]

(* A float literal, as in "return 0.0". *)
Literal(d) == Term("literal", <<d>>)

(* value * factor, for a returned value and a float. *)
Times(t, factor) ==
  IF t = NaNValue \/ isnan(factor) THEN NaNValue
  ELSE [f |-> t.f, x |-> t.x, k |-> Append(t.k, factor)]

(* "+ 0. * (u + v + ...)": nan when one of the slots is, and no change    *)
(* of the value otherwise.                                                 *)
PlusZeroTimes(t, slots) ==
  IF \E i \in 1..Len(slots) : isnan(slots[i]) THEN NaNValue ELSE t

(* Basic generic functions. *)
constant(a) == Term("constant", <<a>>)
linear(a, b, x) == Term("linear", <<a, b, x>>)
quadratic(a, b, c, x) == Term("quadratic", <<a, b, c, x>>)
(* Mutant of power: the coefficient and the exponent change places. *)
power_ExponentFirst(a, b, x) == Term("power", <<b, a, x>>)

power(a, b, x) == Term("power", <<a, b, x>>)
exponential(a, b, x) == Term("exponential", <<a, b, x>>)
logarithm(a, b, x) == Term("logarithm", <<a, b, x>>)

(* Generic functions for gasoline and diesel passenger cars. *)
EF_25(a, b, c, d, e, f, V) == Term("EF_25", <<a, b, c, d, e, V>>)
EF_26(a, b, c, d, e, f, V) == Term("EF_26", <<a, b, c, d, e, f, V>>)
EF_27(a, b, c, d, e, f, V) == Term("EF_27", <<a, b, c, d, e, f, V>>)
EF_28(a, b, c, d, e, f, V) == Term("EF_28", <<a, b, c, d, V>>)
EF_30(a, b, c, d, e, f, V) == Term("EF_30", <<a, b, c, d, e, f, V>>)
EF_31(a, b, c, d, e, f, V) == Term("EF_31", <<a, b, c, d, e, V>>)

(* The exact decimal value of a term of the polynomial generic functions  *)
(* (constant, linear, quadratic) or of a float literal.                   *)
Evaluate(t) ==
  CASE t.f = "literal" -> t.x[1]
    [] t.f = "constant" -> t.x[1]
    [] t.f = "linear" -> Add(Mul(t.x[1], t.x[3]), t.x[2])
    [] t.f = "quadratic" ->
         Add(Add(Mul(t.x[1], Mul(t.x[4], t.x[4])), Mul(t.x[2], t.x[4])), t.x[3])

(* Generic functions for passenger cars and light commercial vehicles:    *)
(* the shape on the used slots, times (1 - rf), plus 0. * the other slots. *)
OneMinus(rf) == Sub(Float(1), rf)

Eq_1(a, b, c, d, e, f, g, h, rf, V) ==
  PlusZeroTimes(Times(Term("Eq_1", <<a, b, c, d, e, f, V>>), OneMinus(rf)), <<g, h>>)
Eq_2(a, b, c, d, e, f, g, h, rf, V) ==
  Times(Term("Eq_2", <<a, b, c, d, e, f, g, h, V>>), OneMinus(rf))
Eq_3(a, b, c, d, e, f, g, h, rf, V) ==
  PlusZeroTimes(Times(Term("Eq_3", <<a, b, c, d, V>>), OneMinus(rf)), <<e, f, g, h>>)
Eq_4(a, b, c, d, e, f, g, h, rf, V) ==
  PlusZeroTimes(Times(Term("Eq_4", <<a, b, V>>), OneMinus(rf)), <<c, d, e, f, g, h>>)
Eq_5(a, b, c, d, e, f, g, h, rf, V) ==
  Times(Term("Eq_5", <<a, b, c, d, e, f, g, h, V>>), OneMinus(rf))
Eq_6(a, b, c, d, e, f, g, h, rf, V) ==
  PlusZeroTimes(Times(Term("Eq_6", <<a, b, c, d, e, V>>), OneMinus(rf)), <<f, g, h>>)
Eq_7(a, b, c, d, e, f, g, h, rf, V) ==
  PlusZeroTimes(Times(Term("Eq_7", <<a, b, c, d, V>>), OneMinus(rf)), <<e, f, g, h>>)
Eq_8(a, b, c, d, e, f, g, h, rf, V) ==
  PlusZeroTimes(Times(Term("Eq_8", <<a, b, c, V>>), OneMinus(rf)), <<d, e, f, g, h>>)
Eq_9(a, b, c, d, e, f, g, h, rf, V) ==
  PlusZeroTimes(Times(Term("Eq_9", <<a, b, c, d, V>>), OneMinus(rf)), <<d, e, f, g, h>>)
Eq_10(a, b, c, d, e, f, g, h, rf, V) ==
  PlusZeroTimes(Times(Term("Eq_10", <<a, b, c, V>>), OneMinus(rf)), <<d, e, f, g, h>>)
Eq_11(a, b, c, d, e, f, g, h, rf, V) ==
  PlusZeroTimes(Times(Term("Eq_11", <<a, b, c, V>>), OneMinus(rf)), <<d, e, f, g, h>>)
Eq_12(a, b, c, d, e, f, g, h, rf, V) ==
  PlusZeroTimes(Times(Term("Eq_12", <<a, b, c, V>>), OneMinus(rf)), <<d, e, f, g, h>>)
Eq_13(a, b, c, d, e, f, g, h, rf, V) ==
  PlusZeroTimes(Times(Term("Eq_13", <<a, b, c, V>>), OneMinus(rf)), <<d, e, f, g, h>>)
Eq_14(a, b, c, d, e, f, g, h, rf, V) ==
  PlusZeroTimes(Times(Term("Eq_14", <<a, b, c, d, e, V>>), OneMinus(rf)), <<f, g, h>>)
Eq_15(a, b, c, d, e, f, g, h, rf, V) ==
  PlusZeroTimes(Times(Term("Eq_15", <<a, b, c, V>>), OneMinus(rf)), <<d, e, f, g, h>>)
Eq_16(a, b, c, d, e, f, g, h, rf, V) ==
  PlusZeroTimes(Times(Term("Eq_16", <<a, b, c, d, V>>), OneMinus(rf)), <<e, f, g, h>>)
Eq_17(a, b, c, d, e, f, g, h, rf, V) ==
  PlusZeroTimes(Times(Term("Eq_17", <<a, b, c, d, e, f, V>>), OneMinus(rf)), <<g, h>>)

(* list_equation_ldv[n], n in 0..16. *)
list_equation_ldv(n, a, b, c, d, e, f, g, h, rf, V) ==
  CASE n = 0 -> Eq_1(a, b, c, d, e, f, g, h, rf, V)
    [] n = 1 -> Eq_2(a, b, c, d, e, f, g, h, rf, V)
    [] n = 2 -> Eq_3(a, b, c, d, e, f, g, h, rf, V)
    [] n = 3 -> Eq_4(a, b, c, d, e, f, g, h, rf, V)
    [] n = 4 -> Eq_5(a, b, c, d, e, f, g, h, rf, V)
    [] n = 5 -> Eq_6(a, b, c, d, e, f, g, h, rf, V)
    [] n = 6 -> Eq_7(a, b, c, d, e, f, g, h, rf, V)
    [] n = 7 -> Eq_8(a, b, c, d, e, f, g, h, rf, V)
    [] n = 8 -> Eq_9(a, b, c, d, e, f, g, h, rf, V)
    [] n = 9 -> Eq_10(a, b, c, d, e, f, g, h, rf, V)
    [] n = 10 -> Eq_11(a, b, c, d, e, f, g, h, rf, V)
    [] n = 11 -> Eq_12(a, b, c, d, e, f, g, h, rf, V)
    [] n = 12 -> Eq_13(a, b, c, d, e, f, g, h, rf, V)
    [] n = 13 -> Eq_14(a, b, c, d, e, f, g, h, rf, V)
    [] n = 14 -> Eq_15(a, b, c, d, e, f, g, h, rf, V)
    [] n = 15 -> Eq_16(a, b, c, d, e, f, g, h, rf, V)
    [] n = 16 -> Eq_17(a, b, c, d, e, f, g, h, rf, V)

(* Generic functions for heavy duty vehicles, buses and coaches. *)
Eq_hdv_0(a, b, c, d, e, f, g, x) ==
  PlusZeroTimes(Term("Eq_hdv_0", <<a, b, c, x>>), <<d, e, f, g>>)
Eq_hdv_1(a, b, c, d, e, f, g, x) ==
  PlusZeroTimes(Term("Eq_hdv_1", <<a, b, c, d, x>>), <<e, f, g>>)
Eq_hdv_2(a, b, c, d, e, f, g, x) ==
  PlusZeroTimes(Term("Eq_hdv_2", <<a, b, c, x>>), <<d, e, f, g>>)
Eq_hdv_3(a, b, c, d, e, f, g, x) ==
  PlusZeroTimes(Term("Eq_hdv_3", <<a, b, c, d, x>>), <<e, f, g>>)
Eq_hdv_4(a, b, c, d, e, f, g, x) ==
  PlusZeroTimes(Term("Eq_hdv_4", <<a, b, c, d, e, x>>), <<f, g>>)
Eq_hdv_5(a, b, c, d, e, f, g, x) ==
  PlusZeroTimes(Term("Eq_hdv_5", <<a, b, c, x>>), <<d, e, f, g>>)
Eq_hdv_6(a, b, c, d, e, f, g, x) ==
  PlusZeroTimes(Term("Eq_hdv_6", <<a, b, c, x>>), <<d, e, f, g>>)
Eq_hdv_7(a, b, c, d, e, f, g, x) ==
  PlusZeroTimes(Term("Eq_hdv_7", <<a, b, x>>), <<c, d, e, f, g>>)
Eq_hdv_8(a, b, c, d, e, f, g, x) ==
  PlusZeroTimes(Term("Eq_hdv_8", <<a, b, c, d, x>>), <<e, f, g>>)
Eq_hdv_9(a, b, c, d, e, f, g, x) ==
  PlusZeroTimes(Term("Eq_hdv_9", <<a, b, c, x>>), <<d, e, f, g>>)
Eq_hdv_10(a, b, c, d, e, f, g, x) ==
  PlusZeroTimes(Term("Eq_hdv_10", <<a, b, c, d, e, x>>), <<f, g>>)
Eq_hdv_11(a, b, c, d, e, f, g, x) ==
  PlusZeroTimes(Term("Eq_hdv_11", <<a, b, c, x>>), <<d, e, f, g>>)
Eq_hdv_12(a, b, c, d, e, f, g, x) ==
  PlusZeroTimes(Term("Eq_hdv_12", <<a, b, c, x>>), <<d, e, f, g>>)
Eq_hdv_13(a, b, c, d, e, f, g, x) ==
  PlusZeroTimes(Term("Eq_hdv_13", <<a, b, c, x>>), <<d, e, f, g>>)
Eq_hdv_14(a, b, c, d, e, f, g, x) ==
  PlusZeroTimes(Term("Eq_hdv_14", <<a, b, c, d, x>>), <<e, f, g>>)
Eq_hdv_15(a, b, c, d, e, f, g, x) ==
  PlusZeroTimes(Term("Eq_hdv_15", <<a, b, c, x>>), <<d, e, f, g>>)

(* list_equation_hdv[n], n in 0..15. *)
list_equation_hdv(n, a, b, c, d, e, f, g, x) ==
  CASE n = 0 -> Eq_hdv_0(a, b, c, d, e, f, g, x)
    [] n = 1 -> Eq_hdv_1(a, b, c, d, e, f, g, x)
    [] n = 2 -> Eq_hdv_2(a, b, c, d, e, f, g, x)
    [] n = 3 -> Eq_hdv_3(a, b, c, d, e, f, g, x)
    [] n = 4 -> Eq_hdv_4(a, b, c, d, e, f, g, x)
    [] n = 5 -> Eq_hdv_5(a, b, c, d, e, f, g, x)
    [] n = 6 -> Eq_hdv_6(a, b, c, d, e, f, g, x)
    [] n = 7 -> Eq_hdv_7(a, b, c, d, e, f, g, x)
    [] n = 8 -> Eq_hdv_8(a, b, c, d, e, f, g, x)
    [] n = 9 -> Eq_hdv_9(a, b, c, d, e, f, g, x)
    [] n = 10 -> Eq_hdv_10(a, b, c, d, e, f, g, x)
    [] n = 11 -> Eq_hdv_11(a, b, c, d, e, f, g, x)
    [] n = 12 -> Eq_hdv_12(a, b, c, d, e, f, g, x)
    [] n = 13 -> Eq_hdv_13(a, b, c, d, e, f, g, x)
    [] n = 14 -> Eq_hdv_14(a, b, c, d, e, f, g, x)
    [] n = 15 -> Eq_hdv_15(a, b, c, d, e, f, g, x)

----------------------------------------------------------------------------
(* Embedded coefficient tables.  A Python index i is the TLA+ index       *)
(* i + 1.                                                                  *)

(* Gasoline passenger cars, Euro 1 to Euro 6c: [pollutant][class][a..f]. *)
efc_gasoline_passenger_car ==
  <<
    <<<<<<112, -1>>, <<129, -3>>, <<-102, -3>>, <<-947, -6>>, <<677, -6>>, <<0, 0>>>>,
      <<<<605, -1>>, <<35, -1>>, <<152, -3>>, <<-252, -4>>, <<-168, -6>>, <<0, 0>>>>,
      <<<<717, -1>>, <<354, -1>>, <<114, -1>>, <<-248, -3>>, <<0, 0>>, <<0, 0>>>>,
      <<<<136, -3>>, <<-141, -4>>, <<-891, -6>>, <<499, -7>>, <<0, 0>>, <<0, 0>>>>,
      <<<<-135, -12>>, <<786, -10>>, <<-122, -7>>, <<775, -6>>, <<-197, -4>>, <<398, -3>>>>,
      <<<<-65, -12>>, <<478, -10>>, <<-779, -8>>, <<506, -6>>, <<-138, -4>>, <<354, -3>>>>,
      <<<<-442, -13>>, <<404, -10>>, <<-673, -8>>, <<434, -6>>, <<-117, -4>>, <<338, -3>>>>>>,
    <<<<<<135, -2>>, <<178, -3>>, <<-677, -5>>, <<-127, -5>>, <<0, 0>>, <<0, 0>>>>,
      <<<<411, 4>>, <<166, 4>>, <<-145, 2>>, <<-103, 2>>, <<0, 0>>, <<0, 0>>>>,
      <<<<557, -4>>, <<365, -4>>, <<-11, -4>>, <<-188, -6>>, <<125, -7>>, <<0, 0>>>>,
      <<<<118, -4>>, <<0, 0>>, <<-347, -7>>, <<0, 0>>, <<884, -9>>, <<0, 0>>>>,
      <<<<287, -18>>, <<643, -2>>, <<217, -4>>, <<-342, -3>>, <<0, 0>>, <<0, 0>>>>,
      <<<<-173, -14>>, <<745, -12>>, <<-959, -10>>, <<532, -8>>, <<-161, -6>>, <<898, -5>>>>,
      <<<<444, -15>>, <<-18, -11>>, <<508, -10>>, <<-531, -8>>, <<191, -6>>, <<53, -4>>>>>>,
    <<<<<<525, -3>>, <<0, 0>>, <<-1, -2>>, <<0, 0>>, <<936, -7>>, <<0, 0>>>>,
      <<<<284, -3>>, <<-234, -4>>, <<-869, -5>>, <<443, -6>>, <<114, -6>>, <<0, 0>>>>,
      <<<<929, -4>>, <<-122, -4>>, <<-149, -5>>, <<397, -7>>, <<653, -8>>, <<0, 0>>>>,
      <<<<106, -3>>, <<0, 0>>, <<-158, -5>>, <<0, 0>>, <<71, -7>>, <<0, 0>>>>,
      <<<<189, -3>>, <<157, -2>>, <<815, -4>>, <<273, -4>>, <<-249, -6>>, <<-268, -3>>>>,
      <<<<474, -3>>, <<562, -2>>, <<341, -3>>, <<838, -4>>, <<-152, -5>>, <<-119, -2>>>>,
      <<<<999, 12>>, <<189, 14>>, <<131, 13>>, <<29, 13>>, <<-634, 10>>, <<-403, 13>>>>>>,
    <<<<nan, nan, nan, nan, nan, nan>>,
      <<nan, nan, nan, nan, nan, nan>>,
      <<nan, nan, nan, nan, nan, nan>>,
      <<nan, nan, nan, nan, nan, nan>>,
      <<<<144, -15>>, <<116, -12>>, <<-337, -10>>, <<311, -8>>, <<-125, -6>>, <<33, -4>>>>,
      <<<<231, -15>>, <<126, -13>>, <<-11, -9>>, <<123, -8>>, <<-629, -7>>, <<272, -5>>>>,
      <<<<265, -15>>, <<-407, -13>>, <<155, -11>>, <<143, -9>>, <<-25, -6>>, <<245, -5>>>>>>
  >>

(* Gasoline passenger cars, fuel consumption: [0][row][a..f]. *)
efc_gasoline_passenger_car_fc ==
  <<
    <<<<<<191, 0>>, <<129, -3>>, <<117, -2>>, <<-723, -6>>, nan, nan>>,
      <<<<199, 0>>, <<892, -4>>, <<346, -3>>, <<-538, -6>>, nan, nan>>,
      <<<<23, 1>>, <<694, -4>>, <<-426, 0>>, <<-446, -6>>, nan, nan>>,
      <<<<208, 0>>, <<107, -3>>, <<-565, -3>>, <<-5, -4>>, <<143, -4>>, nan>>,
      <<<<347, 0>>, <<217, -3>>, <<273, -2>>, <<-911, -6>>, <<428, -5>>, nan>>,
      <<<<154, 1>>, <<869, -3>>, <<191, -1>>, <<-363, -5>>, nan, nan>>,
      <<<<17, 1>>, <<928, -4>>, <<418, -3>>, <<-452, -6>>, <<499, -5>>, nan>>,
      <<<<217, 0>>, <<96, -3>>, <<253, -3>>, <<-421, -6>>, <<965, -5>>, nan>>,
      <<<<253, 0>>, <<902, -4>>, <<502, -3>>, <<-469, -6>>, nan, nan>>,
      <<<<11, 1>>, <<261, -4>>, <<-167, -2>>, <<225, -6>>, <<312, -4>>, nan>>,
      <<<<136, 0>>, <<26, 1>>, <<-165, -2>>, <<228, -6>>, <<312, -4>>, nan>>,
      <<<<174, 0>>, <<685, -4>>, <<364, -3>>, <<-247, -6>>, <<874, -5>>, nan>>,
      <<<<285, 0>>, <<728, -4>>, <<-137, -3>>, <<-416, -6>>, nan, nan>>>>
  >>

(* Diesel passenger cars, Euro 1 to Euro 6c:                             *)
(* [pollutant][class][engine capacity][a..f].                             *)
efc_diesel_passenger_car ==
  <<
    <<
      <<<<nan, nan, nan, nan, nan, nan>>,
        <<<<996, -3>>, <<0, 0>>, <<-188, -4>>, <<0, 0>>, <<109, -6>>, <<0, 0>>>>,
        <<<<996, -3>>, <<0, 0>>, <<-188, -4>>, <<0, 0>>, <<109, -6>>, <<0, 0>>>>>>,
      <<<<nan, nan, nan, nan, nan, nan>>,
        <<<<9, -1>>, <<0, 0>>, <<-174, -4>>, <<0, 0>>, <<877, -7>>, <<0, 0>>>>,
        <<<<9, -1>>, <<0, 0>>, <<-174, -4>>, <<0, 0>>, <<877, -7>>, <<0, 0>>>>>>,
      <<<<nan, nan, nan, nan, nan, nan>>,
        <<<<169, -3>>, <<0, 0>>, <<-292, -5>>, <<0, 0>>, <<125, -7>>, <<11, -1>>>>,
        <<<<169, -3>>, <<0, 0>>, <<-292, -5>>, <<0, 0>>, <<125, -7>>, <<11, -1>>>>>>,
      <<<<nan, nan, nan, nan, nan, nan>>,
        <<nan, nan, nan, nan, nan, nan>>,
        <<nan, nan, nan, nan, nan, nan>>>>,
      <<<<<<-866, 11>>, <<176, 12>>, <<247, 11>>, <<318, 10>>, <<-194, 9>>, <<833, 11>>>>,
        <<<<-866, 11>>, <<176, 12>>, <<247, 11>>, <<318, 10>>, <<-194, 9>>, <<833, 11>>>>,
        <<<<-866, 11>>, <<176, 12>>, <<247, 11>>, <<318, 10>>, <<-194, 9>>, <<833, 11>>>>>>,
      <<<<<<-358, -13>>, <<123, -10>>, <<-149, -8>>, <<858, -7>>, <<-294, -5>>, <<103, -3>>>>,
        <<<<-358, -13>>, <<123, -10>>, <<-149, -8>>, <<858, -7>>, <<-294, -5>>, <<103, -3>>>>,
        <<<<-358, -13>>, <<123, -10>>, <<-149, -8>>, <<858, -7>>, <<-294, -5>>, <<103, -3>>>>>>,
      <<<<<<-358, -13>>, <<123, -10>>, <<-149, -8>>, <<858, -7>>, <<-294, -5>>, <<103, -3>>>>,
        <<<<-358, -13>>, <<123, -10>>, <<-149, -8>>, <<858, -7>>, <<-294, -5>>, <<103, -3>>>>,
        <<<<-358, -13>>, <<123, -10>>, <<-149, -8>>, <<858, -7>>, <<-294, -5>>, <<103, -3>>>>>>
    >>,
    <<
      <<<<nan, nan, nan, nan, nan, nan>>,
        <<<<142, -3>>, <<138, -4>>, <<-201, -5>>, <<-19, -6>>, <<115, -7>>, <<0, 0>>>>,
        <<<<159, -3>>, <<0, 0>>, <<-246, -5>>, <<0, 0>>, <<121, -7>>, <<0, 0>>>>>>,
      <<<<nan, nan, nan, nan, nan, nan>>,
        <<<<161, -3>>, <<746, -4>>, <<-121, -5>>, <<-335, -6>>, <<363, -8>>, <<0, 0>>>>,
        <<<<501, 2>>, <<38, 3>>, <<803, 1>>, <<115, 1>>, <<-266, -1>>, <<0, 0>>>>>>,
      <<<<nan, nan, nan, nan, nan, nan>>,
        <<<<965, -4>>, <<103, -3>>, <<-238, -6>>, <<-724, -7>>, <<193, -8>>, <<0, 0>>>>,
        <<<<912, -4>>, <<0, 0>>, <<-168, -5>>, <<0, 0>>, <<894, -8>>, <<0, 0>>>>>>,
      <<<<<<347, -4>>, <<269, -4>>, <<-641, -6>>, <<159, -5>>, <<112, -7>>, <<0, 0>>>>,
        <<<<347, -4>>, <<269, -4>>, <<-641, -6>>, <<159, -5>>, <<112, -7>>, <<0, 0>>>>,
        <<<<347, -4>>, <<269, -4>>, <<-641, -6>>, <<159, -5>>, <<112, -7>>, <<0, 0>>>>>>,
      <<<<<<104, 30>>, <<46, 32>>, <<153, 30>>, <<292, 30>>, <<-383, 26>>, <<196, 30>>>>,
        <<<<104, 30>>, <<46, 32>>, <<153, 30>>, <<292, 30>>, <<-383, 26>>, <<196, 30>>>>,
        <<<<104, 30>>, <<46, 32>>, <<153, 30>>, <<292, 30>>, <<-383, 26>>, <<196, 30>>>>>>,
      <<<<<<104, 30>>, <<46, 32>>, <<153, 30>>, <<292, 30>>, <<-383, 26>>, <<196, 30>>>>,
        <<<<104, 30>>, <<46, 32>>, <<153, 30>>, <<292, 30>>, <<-383, 26>>, <<196, 30>>>>,
        <<<<104, 30>>, <<46, 32>>, <<153, 30>>, <<292, 30>>, <<-383, 26>>, <<196, 30>>>>>>,
      <<<<<<104, 30>>, <<46, 32>>, <<153, 30>>, <<292, 30>>, <<-383, 26>>, <<196, 30>>>>,
        <<<<104, 30>>, <<46, 32>>, <<153, 30>>, <<292, 30>>, <<-383, 26>>, <<196, 30>>>>,
        <<<<104, 30>>, <<46, 32>>, <<153, 30>>, <<292, 30>>, <<-383, 26>>, <<196, 30>>>>>>
    >>,
    <<
      <<<<nan, nan, nan, nan, nan, nan>>,
        <<<<31, -1>>, <<141, -3>>, <<-618, -5>>, <<-503, -6>>, <<422, -6>>, <<0, 0>>>>,
        <<<<31, -1>>, <<141, -3>>, <<-618, -5>>, <<-503, -6>>, <<422, -6>>, <<0, 0>>>>>>,
      <<<<nan, nan, nan, nan, nan, nan>>,
        <<<<24, -1>>, <<767, -4>>, <<-116, -4>>, <<-5, -4>>, <<12, -5>>, <<0, 0>>>>,
        <<<<24, -1>>, <<767, -4>>, <<-116, -4>>, <<-5, -4>>, <<12, -5>>, <<0, 0>>>>>>,
      <<<<nan, nan, nan, nan, nan, nan>>,
        <<<<282, -2>>, <<198, -3>>, <<669, -4>>, <<-143, -5>>, <<-463, -6>>, <<0, 0>>>>,
        <<<<282, -2>>, <<198, -3>>, <<669, -4>>, <<-143, -5>>, <<-463, -6>>, <<0, 0>>>>>>,
      <<<<<<111, -2>>, <<0, 0>>, <<-202, -4>>, <<0, 0>>, <<148, -6>>, <<0, 0>>>>,
        <<<<111, -2>>, <<0, 0>>, <<-202, -4>>, <<0, 0>>, <<148, -6>>, <<0, 0>>>>,
        <<<<111, -2>>, <<0, 0>>, <<-202, -4>>, <<0, 0>>, <<148, -6>>, <<0, 0>>>>>>,
      <<<<<<946, -3>>, <<426, -5>>, <<-114, -4>>, <<-515, -7>>, <<667, -7>>, <<192, -2>>>>,
        <<<<946, -3>>, <<426, -5>>, <<-114, -4>>, <<-515, -7>>, <<667, -7>>, <<192, -2>>>>,
        <<<<946, -3>>, <<426, -5>>, <<-114, -4>>, <<-515, -7>>, <<667, -7>>, <<192, -2>>>>>>,
      <<<<<<436, -3>>, <<1, -2>>, <<-539, -5>>, <<-102, -6>>, <<29, -6>>, <<-461, -3>>>>,
        <<<<436, -3>>, <<1, -2>>, <<-539, -5>>, <<-102, -6>>, <<29, -6>>, <<-461, -3>>>>,
        <<<<436, -3>>, <<1, -2>>, <<-539, -5>>, <<-102, -6>>, <<29, -6>>, <<-461, -3>>>>>>,
      <<<<<<233, -3>>, <<1, -2>>, <<-288, -5>>, <<-102, -6>>, <<155, -7>>, <<-246, -3>>>>,
        <<<<233, -3>>, <<1, -2>>, <<-288, -5>>, <<-102, -6>>, <<155, -7>>, <<-246, -3>>>>,
        <<<<233, -3>>, <<1, -2>>, <<-288, -5>>, <<-102, -6>>, <<155, -7>>, <<-246, -3>>>>>>
    >>,
    <<
      <<<<nan, nan, nan, nan, nan, nan>>,
        <<<<114, -3>>, <<0, 0>>, <<-233, -5>>, <<0, 0>>, <<226, -7>>, <<0, 0>>>>,
        <<<<114, -3>>, <<0, 0>>, <<-233, -5>>, <<0, 0>>, <<226, -7>>, <<0, 0>>>>>>,
      <<<<nan, nan, nan, nan, nan, nan>>,
        <<<<866, -4>>, <<0, 0>>, <<-142, -5>>, <<0, 0>>, <<106, -7>>, <<0, 0>>>>,
        <<<<866, -4>>, <<0, 0>>, <<-142, -5>>, <<0, 0>>, <<106, -7>>, <<0, 0>>>>>>,
      <<<<nan, nan, nan, nan, nan, nan>>,
        <<<<515, -4>>, <<0, 0>>, <<-88, -5>>, <<0, 0>>, <<812, -8>>, <<0, 0>>>>,
        <<<<515, -4>>, <<0, 0>>, <<-88, -5>>, <<0, 0>>, <<812, -8>>, <<0, 0>>>>>>,
      <<<<<<45, -3>>, <<0, 0>>, <<-539, -6>>, <<0, 0>>, <<348, -8>>, <<0, 0>>>>,
        <<<<45, -3>>, <<0, 0>>, <<-539, -6>>, <<0, 0>>, <<348, -8>>, <<0, 0>>>>,
        <<<<45, -3>>, <<0, 0>>, <<-539, -6>>, <<0, 0>>, <<348, -8>>, <<0, 0>>>>>>,
      <<<<<<117, -5>>, <<106, -1>>, <<-648, -2>>, <<567, -3>>, <<123, -4>>, <<0, 0>>>>,
        <<<<117, -5>>, <<106, -1>>, <<-648, -2>>, <<567, -3>>, <<123, -4>>, <<0, 0>>>>,
        <<<<117, -5>>, <<106, -1>>, <<-648, -2>>, <<567, -3>>, <<123, -4>>, <<0, 0>>>>>>,
      <<<<<<-121, 16>>, <<163, 18>>, <<179, 16>>, <<289, 17>>, <<117, 14>>, <<409, 16>>>>,
        <<<<-121, 16>>, <<163, 18>>, <<179, 16>>, <<289, 17>>, <<117, 14>>, <<409, 16>>>>,
        <<<<-121, 16>>, <<163, 18>>, <<179, 16>>, <<289, 17>>, <<117, 14>>, <<409, 16>>>>>>,
      <<<<<<-121, 16>>, <<163, 18>>, <<179, 16>>, <<289, 17>>, <<117, 14>>, <<409, 16>>>>,
        <<<<-121, 16>>, <<163, 18>>, <<179, 16>>, <<289, 17>>, <<117, 14>>, <<409, 16>>>>,
        <<<<-121, 16>>, <<163, 18>>, <<179, 16>>, <<289, 17>>, <<117, 14>>, <<409, 16>>>>>>
    >>
  >>

(* Light commercial vehicles, Conventional and Euro 1:                   *)
(* [engine type][pollutant][class][Vmin, Vmax, a, b, c].                  *)
ldv_parameter_pre_euro_1 ==
  <<
    <<
      <<<<<<1, 1>>, <<11, 1>>, <<1104, -5>>, <<-15132, -4>>, <<57789, -3>>>>,
        <<<<1, 1>>, <<12, 1>>, <<37, -4>>, <<-5215, -4>>, <<19127, -3>>>>>>,
      <<<<<<1, 1>>, <<11, 1>>, <<0, 0>>, <<179, -4>>, <<19547, -4>>>>,
        <<<<1, 1>>, <<12, 1>>, <<755, -7>>, <<-9, -3>>, <<666, -3>>>>>>,
      <<<<<<1, 1>>, <<11, 1>>, <<677, -6>>, <<-117, -3>>, <<54734, -4>>>>,
        <<<<1, 1>>, <<12, 1>>, <<577, -7>>, <<-1047, -5>>, <<54734, -5>>>>>>,
      <<<<nan, nan, nan, nan, nan>>,
        <<nan, nan, nan, nan, nan>>>>,
      <<<<<<1, 1>>, <<11, 1>>, <<167, -4>>, <<-2649, -3>>, <<16151, -2>>>>,
        <<<<1, 1>>, <<12, 1>>, <<195, -4>>, <<-309, -2>>, <<18885, -2>>>>>>
    >>,
    <<
      <<<<<<1, 1>>, <<11, 1>>, <<2, -4>>, <<-256, -4>>, <<18281, -4>>>>,
        <<<<1, 1>>, <<11, 1>>, <<223, -6>>, <<-26, -3>>, <<1076, -3>>>>>>,
      <<<<<<1, 1>>, <<11, 1>>, <<816, -6>>, <<-1189, -4>>, <<51234, -4>>>>,
        <<<<1, 1>>, <<11, 1>>, <<241, -6>>, <<-3181, -5>>, <<20247, -4>>>>>>,
      <<<<<<1, 1>>, <<11, 1>>, <<175, -7>>, <<-284, -5>>, <<2162, -4>>>>,
        <<<<1, 1>>, <<11, 1>>, <<175, -7>>, <<-284, -5>>, <<2162, -4>>>>>>,
      <<<<<<1, 1>>, <<11, 1>>, <<125, -7>>, <<-577, -6>>, <<288, -3>>>>,
        <<<<1, 1>>, <<11, 1>>, <<45, -6>>, <<-4885, -6>>, <<1932, -4>>>>>>,
      <<<<<<1, 1>>, <<11, 1>>, <<2113, -5>>, <<-265, -2>>, <<14891, -2>>>>,
        <<<<1, 1>>, <<11, 1>>, <<198, -4>>, <<-2506, -3>>, <<13742, -2>>>>>>
    >>
  >>

(* Reduction percentage of Euro 2 to Euro 4 light commercial vehicles    *)
(* over Euro 1: [engine type][class][pollutant].                          *)
ldv_reduction_percentage ==
  <<
    <<<<<<39, 0>>, <<66, 0>>, <<76, 0>>, nan>>,
      <<<<48, 0>>, <<79, 0>>, <<86, 0>>, nan>>,
      <<<<72, 0>>, <<9, 1>>, <<94, 0>>, nan>>>>,
    <<<<<<0, 0>>, <<0, 0>>, <<0, 0>>, <<0, 0>>>>,
      <<<<18, 0>>, <<16, 0>>, <<38, 0>>, <<33, 0>>>>,
      <<<<35, 0>>, <<32, 0>>, <<77, 0>>, <<65, 0>>>>>>
  >>

----------------------------------------------------------------------------
(* Outcome of a call: a returned value (a factor, or Python's None when   *)
(* the function ends without a return statement) or a raised exception.   *)
NoValue == [f |-> "", x |-> <<>>, k |-> <<>>]
Return(t) == [kind |-> "return", err |-> "", val |-> t]
Raise(e) == [kind |-> "raise", err |-> e, val |-> NoValue]

(* The messages of the exceptions the resolvers raise. *)
ErrSpeedRange == "no formula when the speed is lower than 10 km/h or higher than 130 km/h"
ErrCapacityBelow08 == "no formula for gasoline passenger cars when the engine capacity is lower than 0.8 l"
ErrCapacityImprovedConventional == "no formula when the engine capacity is lower than 0.8 l or higher than 2.0 l for Improved Conventional cars"
ErrCapacityOpenLoop == "no formula when the engine capacity is lower than 0.8 l or higher than 2.0 l for Open loop cars"
ErrEuro3GDIDiesel == "Class Euro_3_GDI has no emission factor formula in case of diesel cars"
ErrDieselBelow14 == "no formula for diesel passenger cars with an engine capacity lower than 1.4 l"
ErrLcvGasolinePMHC == "no formula for PM and HC when engine type is gasoline, Conventional or Euro 1"
ErrLcvDieselHC == "no formula for HC when engine type is diesel, Conventional or Euro 1"
ErrLcvEuro2to4 == "no formula for the requested pollutant when emission standard is between Euro 2 and Euro 4"
ErrHdvNoFormula == "no formula available for the requested vehicle technology or/and pollutant"
(* Python's own exceptions: a missing dict key, an index out of range, a  *)
(* value list.index or int() or an unpacking rejects.                     *)
KeyError == "KeyError"
IndexError == "IndexError"
ValueError == "ValueError"

(* Euro classes ordered by appearance in the guidebook, and *)
(* global_class_index.index(copert_class).                   *)
global_class_index ==
  <<class_Euro_1, class_Euro_2, class_Euro_3, class_Euro_4, class_Euro_5,
    class_Euro_6, class_Euro_6c>>

InGlobalClassIndex(copert_class) ==
  \E i \in 1..Len(global_class_index) : global_class_index[i] = copert_class

IndexOf(copert_class) ==
  (CHOOSE i \in 1..Len(global_class_index) : global_class_index[i] = copert_class) - 1

----------------------------------------------------------------------------
(* HEFGasolinePassengerCar, by branch of copert_class.  V is a speed in   *)
(* [10, 130].                                                              *)

(* Mutant of GasolinePRE_ECE: the CO breakpoint taken with V <= 100. *)
GasolinePRE_ECE_Le100(pollutant, V, engine_capacity) ==
  IF Lt(engine_capacity, <<8, -1>>) THEN Raise(ErrCapacityBelow08)
  ELSE IF pollutant = pollutant_CO THEN
    IF Le(V, <<1, 2>>) THEN Return(power(<<281, 0>>, <<-63, -2>>, V))
    ELSE Return(linear(<<112, -3>>, <<432, -2>>, V))
  ELSE IF pollutant = pollutant_VOC THEN
    IF Lt(V, <<1, 2>>) THEN Return(power(<<3034, -2>>, <<-693, -3>>, V))
    ELSE Return(constant(<<1247, -3>>))
  ELSE IF pollutant = pollutant_NOx THEN
    IF Lt(engine_capacity, <<14, -1>>) THEN Return(quadratic(<<-14, -5>>, <<225, -4>>, <<1173, -3>>, V))
    ELSE IF Lt(engine_capacity, <<2, 0>>) THEN Return(quadratic(<<-4, -5>>, <<217, -4>>, <<136, -2>>, V))
    ELSE Return(quadratic(<<1, -4>>, <<3, -2>>, <<15, -1>>, V))
  ELSE Return(None)

GasolinePRE_ECE(pollutant, V, engine_capacity) ==
  IF Lt(engine_capacity, <<8, -1>>) THEN Raise(ErrCapacityBelow08)
  ELSE IF pollutant = pollutant_CO THEN
    IF Lt(V, <<1, 2>>) THEN Return(power(<<281, 0>>, <<-63, -2>>, V))
    ELSE Return(linear(<<112, -3>>, <<432, -2>>, V))
  ELSE IF pollutant = pollutant_VOC THEN
    IF Lt(V, <<1, 2>>) THEN Return(power(<<3034, -2>>, <<-693, -3>>, V))
    ELSE Return(constant(<<1247, -3>>))
  ELSE IF pollutant = pollutant_NOx THEN
    IF Lt(engine_capacity, <<14, -1>>) THEN Return(quadratic(<<-14, -5>>, <<225, -4>>, <<1173, -3>>, V))
    ELSE IF Lt(engine_capacity, <<2, 0>>) THEN Return(quadratic(<<-4, -5>>, <<217, -4>>, <<136, -2>>, V))
    ELSE Return(quadratic(<<1, -4>>, <<3, -2>>, <<15, -1>>, V))
  ELSE Return(None)

GasolineECE_15_00_or_01(pollutant, V, engine_capacity) ==
  IF Lt(engine_capacity, <<8, -1>>) THEN Raise(ErrCapacityBelow08)
  ELSE IF pollutant = pollutant_CO THEN
    IF Lt(V, <<5, 1>>) THEN Return(power(<<313, 0>>, <<-76, -2>>, V))
    ELSE Return(quadratic(<<32, -4>>, <<-406, -3>>, <<2722, -2>>, V))
  ELSE IF pollutant = pollutant_VOC THEN
    IF Lt(V, <<5, 1>>) THEN Return(power(<<2499, -2>>, <<-704, -3>>, V))
    ELSE Return(power(<<485, -2>>, <<-318, -3>>, V))
  ELSE IF pollutant = pollutant_NOx THEN
    IF Lt(engine_capacity, <<14, -1>>) THEN Return(quadratic(<<-14, -5>>, <<225, -4>>, <<1173, -3>>, V))
    ELSE IF Lt(engine_capacity, <<2, 0>>) THEN Return(quadratic(<<-4, -5>>, <<217, -4>>, <<136, -2>>, V))
    ELSE Return(quadratic(<<1, -4>>, <<3, -2>>, <<15, -1>>, V))
  ELSE Return(None)

(* Mutant of GasolineECE_15_02: the capacity is checked only in the       *)
(* branches of the pollutants that have a formula.                        *)
GasolineECE_15_02_CheckInBranch(pollutant, V, engine_capacity) ==
  IF pollutant \notin {pollutant_CO, pollutant_VOC, pollutant_NOx} THEN Return(None)
  ELSE IF Lt(engine_capacity, <<8, -1>>) THEN Raise(ErrCapacityBelow08)
  ELSE IF pollutant = pollutant_CO THEN
    IF Lt(V, <<6, 1>>) THEN Return(power(<<3, 2>>, <<-797, -3>>, V))
    ELSE Return(quadratic(<<26, -4>>, <<-44, -2>>, <<2626, -2>>, V))
  ELSE IF pollutant = pollutant_VOC THEN
    IF Lt(V, <<6, 1>>) THEN Return(power(<<2575, -2>>, <<-714, -3>>, V))
    ELSE Return(quadratic(<<9, -5>>, <<-19, -3>>, <<195, -2>>, V))
  ELSE
    IF Lt(engine_capacity, <<14, -1>>) THEN Return(quadratic(<<18, -5>>, <<-37, -4>>, <<1479, -3>>, V))
    ELSE IF Lt(engine_capacity, <<2, 0>>) THEN Return(quadratic(<<2, -4>>, <<-38, -4>>, <<1663, -3>>, V))
    ELSE Return(quadratic(<<22, -5>>, <<-39, -4>>, <<187, -2>>, V))

GasolineECE_15_02(pollutant, V, engine_capacity) ==
  IF Lt(engine_capacity, <<8, -1>>) THEN Raise(ErrCapacityBelow08)
  ELSE IF pollutant = pollutant_CO THEN
    IF Lt(V, <<6, 1>>) THEN Return(power(<<3, 2>>, <<-797, -3>>, V))
    ELSE Return(quadratic(<<26, -4>>, <<-44, -2>>, <<2626, -2>>, V))
  ELSE IF pollutant = pollutant_VOC THEN
    IF Lt(V, <<6, 1>>) THEN Return(power(<<2575, -2>>, <<-714, -3>>, V))
    ELSE Return(quadratic(<<9, -5>>, <<-19, -3>>, <<195, -2>>, V))
  ELSE IF pollutant = pollutant_NOx THEN
    IF Lt(engine_capacity, <<14, -1>>) THEN Return(quadratic(<<18, -5>>, <<-37, -4>>, <<1479, -3>>, V))
    ELSE IF Lt(engine_capacity, <<2, 0>>) THEN Return(quadratic(<<2, -4>>, <<-38, -4>>, <<1663, -3>>, V))
    ELSE Return(quadratic(<<22, -5>>, <<-39, -4>>, <<187, -2>>, V))
  ELSE Return(None)

GasolineECE_15_03(pollutant, V, engine_capacity) ==
  IF Lt(engine_capacity, <<8, -1>>) THEN Raise(ErrCapacityBelow08)
  ELSE IF pollutant = pollutant_CO THEN
    IF Lt(V, <<2, 1>>) THEN Return(logarithm(<<16136, -2>>, <<-4562, -2>>, V))
    ELSE Return(quadratic(<<377, -5>>, <<-68, -2>>, <<3792, -2>>, V))
  ELSE IF pollutant = pollutant_VOC THEN
    IF Lt(V, <<6, 1>>) THEN Return(power(<<2575, -2>>, <<-714, -3>>, V))
    ELSE Return(quadratic(<<9, -5>>, <<-19, -3>>, <<195, -2>>, V))
  ELSE IF pollutant = pollutant_NOx THEN
    IF Lt(engine_capacity, <<14, -1>>) THEN Return(quadratic(<<25, -5>>, <<-84, -4>>, <<1616, -3>>, V))
    ELSE IF Lt(engine_capacity, <<2, 0>>) THEN Return(exponential(<<129, -2>>, <<99, -4>>, V))
    ELSE Return(quadratic(<<294, -6>>, <<-112, -4>>, <<2784, -3>>, V))
  ELSE Return(None)

GasolineECE_15_04(pollutant, V, engine_capacity) ==
  IF Lt(engine_capacity, <<8, -1>>) THEN Raise(ErrCapacityBelow08)
  ELSE IF pollutant = pollutant_CO THEN
    IF Lt(V, <<6, 1>>) THEN Return(power(<<260788, -3>>, <<-91, -2>>, V))
    ELSE Return(quadratic(<<1163, -6>>, <<-22, -2>>, <<14653, -3>>, V))
  ELSE IF pollutant = pollutant_VOC THEN
    IF Lt(V, <<6, 1>>) THEN Return(power(<<19079, -3>>, <<-693, -3>>, V))
    ELSE Return(quadratic(<<179, -6>>, <<-37, -3>>, <<2608, -3>>, V))
  ELSE IF pollutant = pollutant_NOx THEN
    IF Lt(engine_capacity, <<14, -1>>) THEN Return(quadratic(<<97, -6>>, <<3, -3>>, <<1432, -3>>, V))
    ELSE IF Lt(engine_capacity, <<2, 0>>) THEN Return(quadratic(<<74, -6>>, <<13, -3>>, <<1484, -3>>, V))
    ELSE Return(quadratic(<<266, -6>>, <<-14, -3>>, <<2427, -3>>, V))
  ELSE Return(None)

(* Mutant of GasolineImproved_Conventional: 2.0 l is rejected as well. *)
GasolineImproved_Conventional_From2(pollutant, V, engine_capacity) ==
  IF Lt(engine_capacity, <<8, -1>>) \/ Ge(engine_capacity, <<2, 0>>)
  THEN Raise(ErrCapacityImprovedConventional)
  ELSE IF pollutant = pollutant_CO THEN
    IF Lt(engine_capacity, <<14, -1>>) THEN Return(quadratic(<<2478, -6>>, <<-294, -3>>, <<14577, -3>>, V))
    ELSE Return(quadratic(<<957, -6>>, <<-151, -3>>, <<8273, -3>>, V))
  ELSE IF pollutant = pollutant_VOC THEN
    IF Lt(engine_capacity, <<14, -1>>) THEN Return(quadratic(<<201, -6>>, <<-34, -3>>, <<2189, -3>>, V))
    ELSE Return(quadratic(<<214, -6>>, <<-34, -3>>, <<1999, -3>>, V))
  ELSE IF pollutant = pollutant_NOx THEN
    IF Lt(engine_capacity, <<14, -1>>) THEN Return(logarithm(<<-926, -3>>, <<719, -3>>, V))
    ELSE Return(quadratic(<<247, -6>>, <<14, -4>>, <<1387, -3>>, V))
  ELSE Return(None)

GasolineImproved_Conventional(pollutant, V, engine_capacity) ==
  IF Lt(engine_capacity, <<8, -1>>) \/ Gt(engine_capacity, <<2, 0>>)
  THEN Raise(ErrCapacityImprovedConventional)
  ELSE IF pollutant = pollutant_CO THEN
    IF Lt(engine_capacity, <<14, -1>>) THEN Return(quadratic(<<2478, -6>>, <<-294, -3>>, <<14577, -3>>, V))
    ELSE Return(quadratic(<<957, -6>>, <<-151, -3>>, <<8273, -3>>, V))
  ELSE IF pollutant = pollutant_VOC THEN
    IF Lt(engine_capacity, <<14, -1>>) THEN Return(quadratic(<<201, -6>>, <<-34, -3>>, <<2189, -3>>, V))
    ELSE Return(quadratic(<<214, -6>>, <<-34, -3>>, <<1999, -3>>, V))
  ELSE IF pollutant = pollutant_NOx THEN
    IF Lt(engine_capacity, <<14, -1>>) THEN Return(logarithm(<<-926, -3>>, <<719, -3>>, V))
    ELSE Return(quadratic(<<247, -6>>, <<14, -4>>, <<1387, -3>>, V))
  ELSE Return(None)

GasolineOpen_loop(pollutant, V, engine_capacity) ==
  IF Lt(engine_capacity, <<8, -1>>) \/ Gt(engine_capacity, <<2, 0>>)
  THEN Raise(ErrCapacityOpenLoop)
  ELSE IF pollutant = pollutant_CO THEN
    IF Lt(engine_capacity, <<14, -1>>) THEN Return(quadratic(<<2825, -6>>, <<-377, -3>>, <<17882, -3>>, V))
    ELSE Return(quadratic(<<2029, -6>>, <<-23, -2>>, <<9446, -3>>, V))
  ELSE IF pollutant = pollutant_VOC THEN
    IF Lt(engine_capacity, <<14, -1>>) THEN Return(quadratic(<<256, -6>>, <<-423, -4>>, <<2185, -3>>, V))
    ELSE Return(quadratic(<<99, -6>>, <<-16, -3>>, <<808, -3>>, V))
  ELSE IF pollutant = pollutant_NOx THEN
    IF Lt(engine_capacity, <<14, -1>>) THEN Return(logarithm(<<-921, -3>>, <<616, -3>>, V))
    ELSE Return(logarithm(<<-761, -3>>, <<515, -3>>, V))
  ELSE Return(None)

(* Mutant of GasolinePMBracket: the brackets exclude their upper speed. *)
GasolinePMBracket_UpperExcluded(V, urban, rural, highway) ==
  IF Lt(V, speed_type_urban) THEN Return(constant(urban))
  ELSE IF Lt(V, speed_type_rural) THEN Return(constant(rural))
  ELSE Return(constant(highway))

(* PM, Euro 1 to Euro 4: a constant by class group and speed bracket. *)
GasolinePMBracket(V, urban, rural, highway) ==
  IF Le(V, speed_type_urban) THEN Return(constant(urban))
  ELSE IF Le(V, speed_type_rural) THEN Return(constant(rural))
  ELSE Return(constant(highway))

(* Mutant of GasolineTable: HC with EF_26 for Euro 5 and EF_28 after it. *)
GasolineTable_HCEuro6With28(pollutant, V, copert_class) ==
  IF ~InGlobalClassIndex(copert_class) THEN Raise(ValueError)
  ELSE IF pollutant + 1 > Len(efc_gasoline_passenger_car) THEN Raise(IndexError)
  ELSE
    LET copert_index == IndexOf(copert_class)
        row == efc_gasoline_passenger_car[pollutant + 1][copert_index + 1]
        a == row[1]
        b == row[2]
        c == row[3]
        d == row[4]
        e == row[5]
        f == row[6]
    IN IF copert_class <= class_Euro_4 THEN Return(EF_25(a, b, c, d, e, f, V))
       ELSE IF pollutant = pollutant_CO \/ pollutant = pollutant_PM
         THEN Return(EF_26(a, b, c, d, e, f, V))
       ELSE IF pollutant = pollutant_NOx THEN Return(EF_27(a, b, c, d, e, f, V))
       ELSE IF pollutant = pollutant_HC THEN
         IF copert_class = class_Euro_5 THEN Return(EF_26(a, b, c, d, e, f, V))
         ELSE Return(EF_28(a, b, c, d, e, f, V))
       ELSE Return(None)

(* Euro 1 and later, from the coefficient table. *)
GasolineTable(pollutant, V, copert_class) ==
  IF ~InGlobalClassIndex(copert_class) THEN Raise(ValueError)
  ELSE IF pollutant + 1 > Len(efc_gasoline_passenger_car) THEN Raise(IndexError)
  ELSE
    LET copert_index == IndexOf(copert_class)
        row == efc_gasoline_passenger_car[pollutant + 1][copert_index + 1]
        a == row[1]
        b == row[2]
        c == row[3]
        d == row[4]
        e == row[5]
        f == row[6]
    IN IF copert_class <= class_Euro_4 THEN Return(EF_25(a, b, c, d, e, f, V))
       ELSE IF pollutant = pollutant_CO \/ pollutant = pollutant_PM
         THEN Return(EF_26(a, b, c, d, e, f, V))
       ELSE IF pollutant = pollutant_NOx THEN Return(EF_27(a, b, c, d, e, f, V))
       ELSE IF pollutant = pollutant_HC THEN
         IF copert_class = class_Euro_5 THEN Return(EF_28(a, b, c, d, e, f, V))
         ELSE Return(EF_26(a, b, c, d, e, f, V))
       ELSE Return(None)

GasolineEuro(pollutant, V, copert_class) ==
  IF pollutant = pollutant_PM /\ copert_class <= class_Euro_2
    THEN GasolinePMBracket(V, <<322, -5>>, <<184, -5>>, <<19, -4>>)
  ELSE IF pollutant = pollutant_PM /\ copert_class = class_Euro_3_GDI
    THEN GasolinePMBracket(V, <<66, -4>>, <<296, -5>>, <<695, -5>>)
  ELSE IF pollutant = pollutant_PM /\ copert_class <= class_Euro_4
    THEN GasolinePMBracket(V, <<128, -5>>, <<836, -6>>, <<119, -5>>)
  ELSE GasolineTable(pollutant, V, copert_class)

(* The branch of the class, for a speed in [10, 130]. *)
GasolineByClass(pollutant, V, copert_class, engine_capacity) ==
  IF copert_class = class_PRE_ECE THEN GasolinePRE_ECE(pollutant, V, engine_capacity)
  ELSE IF copert_class = class_ECE_15_00_or_01
    THEN GasolineECE_15_00_or_01(pollutant, V, engine_capacity)
  ELSE IF copert_class = class_ECE_15_02 THEN GasolineECE_15_02(pollutant, V, engine_capacity)
  ELSE IF copert_class = class_ECE_15_03 THEN GasolineECE_15_03(pollutant, V, engine_capacity)
  ELSE IF copert_class = class_ECE_15_04 THEN GasolineECE_15_04(pollutant, V, engine_capacity)
  ELSE IF copert_class = class_Improved_Conventional
    THEN GasolineImproved_Conventional(pollutant, V, engine_capacity)
  ELSE IF copert_class = class_Open_loop THEN GasolineOpen_loop(pollutant, V, engine_capacity)
  ELSE GasolineEuro(pollutant, V, copert_class)

(* Mutant of HEFGasolinePassengerCar: a speed above 130 is clamped to 130. *)
HEFGasolinePassengerCar_Clamped(pollutant, speed, copert_class, engine_capacity) ==
  LET V == speed IN
  IF Eq(V, <<0, 0>>) THEN Return(Literal(<<0, 0>>))
  ELSE IF Lt(V, <<1, 1>>) THEN Raise(ErrSpeedRange)
  ELSE GasolineByClass(pollutant, min(V, <<13, 1>>), copert_class, engine_capacity)

HEFGasolinePassengerCar(pollutant, speed, copert_class, engine_capacity) ==
  LET V == speed IN
  IF Eq(V, <<0, 0>>) THEN Return(Literal(<<0, 0>>))
  ELSE IF Lt(V, <<1, 1>>) \/ Gt(V, <<13, 1>>) THEN Raise(ErrSpeedRange)
  ELSE GasolineByClass(pollutant, V, copert_class, engine_capacity)

----------------------------------------------------------------------------
(* HEFDieselPassengerCar.  V is a speed in [10, 130]. *)

DieselPreEuro(pollutant, V, engine_capacity) ==
  IF pollutant = pollutant_CO THEN Return(power(<<541301, -5>>, <<-574, -3>>, V))
  ELSE IF pollutant = pollutant_NOx THEN
    IF Le(engine_capacity, <<2, 0>>) THEN Return(quadratic(<<101, -6>>, <<-14, -3>>, <<918, -3>>, V))
    ELSE Return(quadratic(<<133, -6>>, <<-18, -3>>, <<1331, -3>>, V))
  ELSE IF pollutant = pollutant_VOC THEN Return(power(<<461, -2>>, <<-937, -3>>, V))
  ELSE IF pollutant = pollutant_PM THEN Return(quadratic(<<58, -6>>, <<-86, -4>>, <<45, -2>>, V))
  ELSE IF pollutant = pollutant_FC THEN Return(quadratic(<<14, -3>>, <<-2084, -3>>, <<118489, -3>>, V))
  ELSE Return(None)

(* The engine capacity band of the row read for Euro 1 and later. *)
DieselCapacityBand(engine_capacity) ==
  IF Lt(engine_capacity, <<14, -1>>) THEN engine_capacity_less_1_4
  ELSE IF Lt(engine_capacity, <<2, 0>>) THEN engine_capacity_from_1_4_to_2
  ELSE engine_capacity_more_2

(* Mutant of DieselDispatch: Euro 6 and Euro 6c with EF_27 for CO and     *)
(* EF_26 otherwise.                                                        *)
DieselDispatch_Euro6Swapped(pollutant, V, copert_class, row) ==
  LET a == row[1]
      b == row[2]
      c == row[3]
      d == row[4]
      e == row[5]
      f == row[6]
  IN IF copert_class <= class_Euro_4 THEN
       IF pollutant = pollutant_CO /\ copert_class = class_Euro_4
       THEN Return(Term("Euro4_CO", <<<<175, -4>>, <<8642, -2>>, <<11767, -2>>, <<-2199, -2>>, V>>))
       ELSE Return(EF_30(a, b, c, d, e, f, V))
     ELSE IF copert_class = class_Euro_5 THEN
       IF pollutant = pollutant_PM THEN Return(EF_31(a, b, c, d, e, f, V))
       ELSE Return(EF_27(a, b, c, d, e, f, V))
     ELSE
       IF pollutant = pollutant_CO THEN Return(EF_27(a, b, c, d, e, f, V))
       ELSE Return(EF_26(a, b, c, d, e, f, V))

(* The formula by class and pollutant, on the row a..f. *)
DieselDispatch(pollutant, V, copert_class, row) ==
  LET a == row[1]
      b == row[2]
      c == row[3]
      d == row[4]
      e == row[5]
      f == row[6]
  IN IF copert_class <= class_Euro_4 THEN
       IF pollutant = pollutant_CO /\ copert_class = class_Euro_4
       THEN Return(Term("Euro4_CO", <<<<175, -4>>, <<8642, -2>>, <<11767, -2>>, <<-2199, -2>>, V>>))
       ELSE Return(EF_30(a, b, c, d, e, f, V))
     ELSE IF copert_class = class_Euro_5 THEN
       IF pollutant = pollutant_PM THEN Return(EF_31(a, b, c, d, e, f, V))
       ELSE Return(EF_27(a, b, c, d, e, f, V))
     ELSE
       IF pollutant = pollutant_CO THEN Return(EF_26(a, b, c, d, e, f, V))
       ELSE Return(EF_27(a, b, c, d, e, f, V))

(* Mutant of DieselEuro: no test of the selected row before the formula. *)
DieselEuro_NoSentinelTest(pollutant, V, copert_class, engine_capacity) ==
  IF pollutant + 1 > Len(efc_diesel_passenger_car) THEN Raise(IndexError)
  ELSE
    LET copert_index == IndexOf(copert_class)
        band == DieselCapacityBand(engine_capacity)
        row == efc_diesel_passenger_car[pollutant + 1][copert_index + 1][band + 1]
    IN DieselDispatch(pollutant, V, copert_class, row)

(* Mutant of DieselEuro: the undefined row is an error up to Euro 4. *)
DieselEuro_RaiseUpToEuro4(pollutant, V, copert_class, engine_capacity) ==
  IF pollutant + 1 > Len(efc_diesel_passenger_car) THEN Raise(IndexError)
  ELSE
    LET copert_index == IndexOf(copert_class)
        band == DieselCapacityBand(engine_capacity)
        row == efc_diesel_passenger_car[pollutant + 1][copert_index + 1][band + 1]
    IN IF band = engine_capacity_less_1_4 /\ isnan(row[1])
          /\ copert_class <= class_Euro_4
       THEN Raise(ErrDieselBelow14)
       ELSE DieselDispatch(pollutant, V, copert_class, row)

DieselEuro(pollutant, V, copert_class, engine_capacity) ==
  IF pollutant + 1 > Len(efc_diesel_passenger_car) THEN Raise(IndexError)
  ELSE
    LET copert_index == IndexOf(copert_class)
        band == DieselCapacityBand(engine_capacity)
        row == efc_diesel_passenger_car[pollutant + 1][copert_index + 1][band + 1]
    IN IF band = engine_capacity_less_1_4 /\ isnan(row[1])
          /\ copert_class <= class_Euro_3
       THEN Raise(ErrDieselBelow14)
       ELSE DieselDispatch(pollutant, V, copert_class, row)

(* Pre-Euro or Euro 1 and later, for a speed in [10, 130]. *)
DieselByClass(pollutant, V, copert_class, engine_capacity) ==
  IF ~InGlobalClassIndex(copert_class) THEN DieselPreEuro(pollutant, V, engine_capacity)
  ELSE DieselEuro(pollutant, V, copert_class, engine_capacity)

(* Mutant of HEFDieselPassengerCar: the speed is looked at before the     *)
(* class.                                                                  *)
HEFDieselPassengerCar_SpeedFirst(pollutant, speed, copert_class, engine_capacity) ==
  LET V == speed IN
  IF Eq(V, <<0, 0>>) THEN Return(Literal(<<0, 0>>))
  ELSE IF Lt(V, <<1, 1>>) \/ Gt(V, <<13, 1>>) THEN Raise(ErrSpeedRange)
  ELSE IF copert_class = class_Euro_3_GDI THEN Raise(ErrEuro3GDIDiesel)
  ELSE DieselByClass(pollutant, V, copert_class, engine_capacity)

HEFDieselPassengerCar(pollutant, speed, copert_class, engine_capacity) ==
  IF copert_class = class_Euro_3_GDI THEN Raise(ErrEuro3GDIDiesel)
  ELSE
    LET V == speed IN
    IF Eq(V, <<0, 0>>) THEN Return(Literal(<<0, 0>>))
    ELSE IF Lt(V, <<1, 1>>) \/ Gt(V, <<13, 1>>) THEN Raise(ErrSpeedRange)
    ELSE DieselByClass(pollutant, V, copert_class, engine_capacity)

----------------------------------------------------------------------------
(* State.                                                                  *)
(*   pc             position of the program: in the constructor, reading   *)
(*                  the light duty file ("ldv_file") or the heavy duty     *)
(*                  file ("hdv_file"); "ready" once the object is built,   *)
(*                  "returned" when an evaluation call has ended;          *)
(*                  "failed" when the constructor raised                   *)
(*   ldv_parameter  the array self.ldv_parameter, as the map from the      *)
(*                  indices assigned so far to their rows (every other     *)
(*                  row holds nan in each slot)                            *)
(*   hdv_parameter  the array self.hdv_parameter, likewise                 *)
(*   n_ldv, n_hdv   number of lines read from each file                    *)
(*   call           the last evaluation call and its arguments             *)
(*   outcome        what that call returned or raised                      *)
(*   threads        for calls made by several threads on the one object:   *)
(*                  each thread's position, arguments and outcome          *)
(*   frames         for a call followed method by method: the stack of    *)
(*                  the methods entered and not yet left                   *)
VARIABLES pc, ldv_parameter, hdv_parameter, n_ldv, n_hdv, call, outcome, threads, frames

vars == <<pc, ldv_parameter, hdv_parameter, n_ldv, n_hdv, call, outcome, threads, frames>>

(* Shapes of the two arrays, and the row of nan they are filled with. *)
ldv_parameter_shape == <<2, 3, 5, 12>>
hdv_parameter_shape == <<2, 20, 8, 5, 3, 7, 10>>

NanRow(n) == [i \in 1..n |-> nan]

LdvRow(i_ldv_type, i_ldv_copert_class, i_pollutant) ==
  IF <<i_ldv_type, i_ldv_copert_class, i_pollutant>> \in DOMAIN ldv_parameter
  THEN ldv_parameter[<<i_ldv_type, i_ldv_copert_class, i_pollutant>>]
  ELSE NanRow(ldv_parameter_shape[4])

HdvRow(key) ==
  IF key \in DOMAIN hdv_parameter THEN hdv_parameter[key]
  ELSE NanRow(hdv_parameter_shape[7])

(* self.index_pollutant: the pollutants the loaded arrays know. *)
HasIndexPollutant(pollutant) ==
  pollutant \in {pollutant_CO, pollutant_NOx, pollutant_HC, pollutant_PM, pollutant_FC}

index_pollutant(pollutant) ==
  CASE pollutant = pollutant_CO -> 0
    [] pollutant = pollutant_NOx -> 1
    [] pollutant = pollutant_HC -> 2
    [] pollutant = pollutant_PM -> 3
    [] pollutant = pollutant_FC -> 4

(* self.index_copert_class_ldv: None below Euro 5. *)
index_copert_class_ldv(copert_class) ==
  CASE copert_class = class_Euro_5 -> 0
    [] copert_class = class_Euro_6 -> 1
    [] copert_class = class_Euro_6c -> 2

(* self.index_vehicle_type: None but for heavy duty vehicles and buses. *)
HasIndexVehicleType(vehicle_category) ==
  vehicle_category \in {vehicle_type_heavy_duty_vehicle, vehicle_type_bus}

index_vehicle_type(vehicle_category) ==
  CASE vehicle_category = vehicle_type_heavy_duty_vehicle -> 0
    [] vehicle_category = vehicle_type_bus -> 1

----------------------------------------------------------------------------
(* HEFLightCommercialVehicle. *)

HasIndexPollutantPreEuro4(pollutant) ==
  pollutant \in {pollutant_CO, pollutant_NOx, pollutant_VOC, pollutant_PM, pollutant_FC}

index_pollutant_pre_euro_4(pollutant) ==
  CASE pollutant = pollutant_CO -> 0
    [] pollutant = pollutant_NOx -> 1
    [] pollutant = pollutant_VOC -> 2
    [] pollutant = pollutant_PM -> 3
    [] pollutant = pollutant_FC -> 4

(* Mutant of LcvUpToEuro1: every class below Euro 1 reads the row of    *)
(* Conventional.                                                           *)
LcvUpToEuro1_ClassesBelowEuro1(pollutant, speed, engine_type, copert_class) ==
  IF ~HasIndexPollutantPreEuro4(pollutant) THEN Raise(KeyError)
  ELSE IF engine_type = engine_type_gasoline
          /\ (pollutant = pollutant_PM \/ pollutant = pollutant_HC)
    THEN Raise(ErrLcvGasolinePMHC)
  ELSE IF engine_type = engine_type_diesel /\ pollutant = pollutant_HC
    THEN Raise(ErrLcvDieselHC)
  ELSE IF engine_type + 1 > Len(ldv_parameter_pre_euro_1) THEN Raise(IndexError)
  ELSE
    LET i_copert_class == IF copert_class < class_Euro_1 THEN 0 ELSE 1
        i_pollutant == index_pollutant_pre_euro_4(pollutant)
        row == ldv_parameter_pre_euro_1[engine_type + 1][i_pollutant + 1][i_copert_class + 1]
        Vmin == row[1]
        Vmax == row[2]
        a == row[3]
        b == row[4]
        c == row[5]
        V == min(max(Vmin, speed), Vmax)
    IN Return(quadratic(a, b, c, V))

(* Mutant of LcvUpToEuro1: gasoline with PM is not an error. *)
LcvUpToEuro1_NoGasolinePMTest(pollutant, speed, engine_type, copert_class) ==
  IF copert_class \notin {class_Improved_Conventional, class_Euro_1} THEN Raise(KeyError)
  ELSE IF ~HasIndexPollutantPreEuro4(pollutant) THEN Raise(KeyError)
  ELSE IF engine_type = engine_type_gasoline
          /\ pollutant = pollutant_HC
    THEN Raise(ErrLcvGasolinePMHC)
  ELSE IF engine_type = engine_type_diesel /\ pollutant = pollutant_HC
    THEN Raise(ErrLcvDieselHC)
  ELSE IF engine_type + 1 > Len(ldv_parameter_pre_euro_1) THEN Raise(IndexError)
  ELSE
    LET i_copert_class == IF copert_class = class_Improved_Conventional THEN 0 ELSE 1
        i_pollutant == index_pollutant_pre_euro_4(pollutant)
        row == ldv_parameter_pre_euro_1[engine_type + 1][i_pollutant + 1][i_copert_class + 1]
        Vmin == row[1]
        Vmax == row[2]
        a == row[3]
        b == row[4]
        c == row[5]
        V == min(max(Vmin, speed), Vmax)
    IN Return(quadratic(a, b, c, V))

(* Classes up to Euro 1: the quadratic of the pre-Euro 1 table, at the    *)
(* speed clamped to the row's [Vmin, Vmax].                                *)
LcvUpToEuro1(pollutant, speed, engine_type, copert_class) ==
  IF copert_class \notin {class_Improved_Conventional, class_Euro_1} THEN Raise(KeyError)
  ELSE IF ~HasIndexPollutantPreEuro4(pollutant) THEN Raise(KeyError)
  ELSE IF engine_type = engine_type_gasoline
          /\ (pollutant = pollutant_PM \/ pollutant = pollutant_HC)
    THEN Raise(ErrLcvGasolinePMHC)
  ELSE IF engine_type = engine_type_diesel /\ pollutant = pollutant_HC
    THEN Raise(ErrLcvDieselHC)
  ELSE IF engine_type + 1 > Len(ldv_parameter_pre_euro_1) THEN Raise(IndexError)
  ELSE
    LET i_copert_class == IF copert_class = class_Improved_Conventional THEN 0 ELSE 1
        i_pollutant == index_pollutant_pre_euro_4(pollutant)
        row == ldv_parameter_pre_euro_1[engine_type + 1][i_pollutant + 1][i_copert_class + 1]
        Vmin == row[1]
        Vmax == row[2]
        a == row[3]
        b == row[4]
        c == row[5]
        V == min(max(Vmin, speed), Vmax)
    IN Return(quadratic(a, b, c, V))

(* Mutant of LcvReduction: the percentage is taken as a fraction (the     *)
(* factor 0.01 is missing).                                                *)
LcvReduction_NoPercent(emission_factor_euro_1, pollutant, engine_type, copert_class) ==
  IF pollutant /= pollutant_HC /\ pollutant /= pollutant_FC THEN
    IF copert_class \notin {class_Euro_2, class_Euro_3, class_Euro_4} THEN Raise(KeyError)
    ELSE
      LET i_engine_type == engine_type
          i_pollutant == index_pollutant_pre_euro_4(pollutant)
          i_copert_class == CASE copert_class = class_Euro_2 -> 0
                              [] copert_class = class_Euro_3 -> 1
                              [] copert_class = class_Euro_4 -> 2
          reduction_percentage ==
            ldv_reduction_percentage[i_engine_type + 1][i_copert_class + 1][i_pollutant + 1]
      IN Return(Times(emission_factor_euro_1, Sub(<<1, 0>>, reduction_percentage)))
  ELSE Raise(ErrLcvEuro2to4)

(* Euro 2 to Euro 4: the reduction applied to the factor of Euro 1. *)
LcvReduction(emission_factor_euro_1, pollutant, engine_type, copert_class) ==
  IF pollutant /= pollutant_HC /\ pollutant /= pollutant_FC THEN
    IF copert_class \notin {class_Euro_2, class_Euro_3, class_Euro_4} THEN Raise(KeyError)
    ELSE
      LET i_engine_type == engine_type
          i_pollutant == index_pollutant_pre_euro_4(pollutant)
          i_copert_class == CASE copert_class = class_Euro_2 -> 0
                              [] copert_class = class_Euro_3 -> 1
                              [] copert_class = class_Euro_4 -> 2
          reduction_percentage ==
            Mul(<<1, -2>>, ldv_reduction_percentage[i_engine_type + 1][i_copert_class + 1][i_pollutant + 1])
      IN Return(Times(emission_factor_euro_1, Sub(<<1, 0>>, reduction_percentage)))
  ELSE Raise(ErrLcvEuro2to4)

(* Euro 5 and later: the loaded row and the equation it names. *)
LcvFromEuro5(pollutant, speed, engine_type, copert_class) ==
  IF ~HasIndexPollutant(pollutant) THEN Raise(KeyError)
  ELSE IF engine_type + 1 > ldv_parameter_shape[1] THEN Raise(IndexError)
  ELSE
    LET i_pollutant == index_pollutant(pollutant)
        i_copert_class == index_copert_class_ldv(copert_class)
        row == LdvRow(engine_type, i_copert_class, i_pollutant)
        rf == row[9]
        Vmin == row[10]
        Vmax == row[11]
        N_eq == row[12]
        V == min(max(Vmin, speed), Vmax)
        n == IF int(N_eq) < 0 THEN int(N_eq) + 17 ELSE int(N_eq)
    IN IF isnan(N_eq) THEN Raise(ValueError)
       ELSE IF n \notin 0..16 THEN Raise(IndexError)
       ELSE Return(list_equation_ldv(n, row[1], row[2], row[3], row[4], row[5],
                                     row[6], row[7], row[8], rf, V))

RECURSIVE HEFLightCommercialVehicle(_, _, _, _)
HEFLightCommercialVehicle(pollutant, speed, engine_type, copert_class) ==
  LET V == speed IN
  IF Eq(V, <<0, 0>>) THEN Return(Literal(<<0, 0>>))
  ELSE IF copert_class <= class_Euro_1
    THEN LcvUpToEuro1(pollutant, speed, engine_type, copert_class)
  ELSE IF copert_class >= class_Euro_2 /\ copert_class <= class_Euro_4 THEN
    LET emission_factor_euro_1 ==
          HEFLightCommercialVehicle(pollutant, V, engine_type, class_Euro_1)
    IN IF emission_factor_euro_1.kind = "raise" THEN emission_factor_euro_1
       ELSE LcvReduction(emission_factor_euro_1.val, pollutant, engine_type, copert_class)
  ELSE LcvFromEuro5(pollutant, speed, engine_type, copert_class)

----------------------------------------------------------------------------
(* HEFHeavyDutyVehicle. *)

(* Indexing self.hdv_parameter with None for the vehicle category (a new  *)
(* axis): the other five indices move one axis to the left, and the       *)
(* result, when they fit, is not a row of ten values.                     *)
HdvIndexedWithNone(hdv_type, hdv_copert_class, i_pollutant, load, slope) ==
  IF hdv_type >= hdv_parameter_shape[1] \/ hdv_copert_class >= hdv_parameter_shape[2]
     \/ i_pollutant >= hdv_parameter_shape[3] \/ load >= hdv_parameter_shape[4]
     \/ slope >= hdv_parameter_shape[5]
  THEN Raise(IndexError)
  ELSE Raise(ValueError)

(* Mutant of HdvEvaluate: the equation number -1 is let through, and      *)
(* list_equation_hdv[-1] is the last equation.                            *)
HdvEvaluate_AcceptsMinusOne(row, speed) ==
  LET Vmin == row[8]
      Vmax == row[9]
      N_eq == row[10]
      V == min(max(Vmin, speed), Vmax)
      n == IF int(N_eq) < 0 THEN int(N_eq) + 16 ELSE int(N_eq)
  IN IF Ge(N_eq, Float(0 - 1)) THEN
       IF n > 15 THEN Raise(IndexError)
       ELSE Return(list_equation_hdv(n, row[1], row[2], row[3], row[4],
                                     row[5], row[6], row[7], V))
     ELSE Raise(ErrHdvNoFormula)

(* Mutant of HdvEvaluate: the equation at the speed of the call. *)
HdvEvaluate_NoClamp(row, speed) ==
  LET N_eq == row[10]
      V == speed
  IN IF Ge(N_eq, <<0, 0>>) THEN
       IF int(N_eq) > 15 THEN Raise(IndexError)
       ELSE Return(list_equation_hdv(int(N_eq), row[1], row[2], row[3], row[4],
                                     row[5], row[6], row[7], V))
     ELSE Raise(ErrHdvNoFormula)

(* The row's equation at the clamped speed. *)
HdvEvaluate(row, speed) ==
  LET Vmin == row[8]
      Vmax == row[9]
      N_eq == row[10]
      V == min(max(Vmin, speed), Vmax)
  IN IF Ge(N_eq, <<0, 0>>) THEN
       IF int(N_eq) > 15 THEN Raise(IndexError)
       ELSE Return(list_equation_hdv(int(N_eq), row[1], row[2], row[3], row[4],
                                     row[5], row[6], row[7], V))
     ELSE Raise(ErrHdvNoFormula)

HEFHeavyDutyVehicle(speed, vehicle_category, hdv_type, hdv_copert_class, pollutant, load, slope) ==
  IF ~HasIndexPollutant(pollutant) THEN Raise(KeyError)
  ELSE IF ~HasIndexVehicleType(vehicle_category)
    THEN HdvIndexedWithNone(hdv_type, hdv_copert_class, index_pollutant(pollutant),
                            load, slope)
  ELSE IF hdv_type >= hdv_parameter_shape[2] \/ hdv_copert_class >= hdv_parameter_shape[3]
          \/ load >= hdv_parameter_shape[5] \/ slope >= hdv_parameter_shape[6]
    THEN Raise(IndexError)
  ELSE HdvEvaluate(HdvRow(<<index_vehicle_type(vehicle_category), hdv_type,
                            hdv_copert_class, index_pollutant(pollutant), load, slope>>),
                   speed)

----------------------------------------------------------------------------
(* The constructor: the two parameter files.  A line is the list          *)
(* line_split with the fields the constructor reads: the labels as        *)
(* strings, the numbers as the floats float(x) gives.                     *)

(* Bounds: lines read from each file. *)
MaxLdvLines == 1
MaxHdvLines == 1

corr_pollutant ==
  ("CO" :> pollutant_CO) @@ ("NOx" :> pollutant_NOx) @@ ("HC" :> pollutant_HC)
  @@ ("PM" :> pollutant_PM) @@ ("FC" :> pollutant_FC)

corr_ldv_type ==
  ("Gasoline <3.5 t" :> engine_type_gasoline) @@ ("Diesel <3.5 t" :> engine_type_diesel)

corr_ldv_class ==
  ("5" :> class_Euro_5) @@ ("6" :> class_Euro_6) @@ ("6c" :> class_Euro_6c)

corr_ldv_equation ==
  ("Equation 1" :> 0) @@ ("Equation 9" :> 8) @@ ("Equation 12" :> 11)
  @@ ("Equation 16" :> 15) @@ ("Equation 17" :> 16)

corr_hdv_or_bus ==
  ("HDV" :> vehicle_type_heavy_duty_vehicle) @@ ("BUS" :> vehicle_type_bus)

corr_hdv_type ==
  ("Gasoline >3.5 t" :> hdv_type_gasoline_3_5) @@ ("Rigid <=7.5 t" :> hdv_type_rigid_7_5)
  @@ ("Rigid 7.5 - 12 t" :> hdv_type_rigid_7_5_12)
  @@ ("Urban Buses Midi <=15 t" :> bus_type_urban_15)

(* The technology label is given by its parts around its first " -": the  *)
(* text before it and, when there is one, the text after the dash.  The   *)
(* constructor keeps the first part alone unless it is "HD Euro V".       *)
hdv_tech(label) ==
  IF Len(label) = 2 /\ label[1] /= "HD Euro V" THEN <<label[1]>> ELSE label

corr_tech ==
  (<<"Conventional">> :> class_hdv_Conventional)
  @@ (<<"HD Euro I">> :> class_hdv_Euro_I)
  @@ (<<"HD Euro II">> :> class_hdv_Euro_II)
  @@ (<<"HD Euro III">> :> class_hdv_Euro_III)
  @@ (<<"HD Euro IV">> :> class_hdv_Euro_IV)
  @@ (<<"HD Euro V", " EGR">> :> class_hdv_Euro_V_EGR)
  @@ (<<"HD Euro V", " SCR">> :> class_hdv_Euro_V_SCR)
  @@ (<<"HD Euro VI">> :> class_hdv_Euro_VI)

corr_load == ("0" :> hdv_load_0) @@ ("50" :> hdv_load_50) @@ ("100" :> hdv_load_100)

corr_slope ==
  ("0%" :> slope_0) @@ ("-6%" :> slope_negative_6) @@ ("-4%" :> slope_negative_4)
  @@ ("-2%" :> slope_negative_2) @@ ("2%" :> slope_2) @@ ("4%" :> slope_4)
  @@ ("6%" :> slope_6)

(* Lines a light duty file may hold: the header, rows of Euro 5 and       *)
(* later, and a row whose equation the constructor has no entry for.      *)
(* Fields: [1] sector, [2] type, [4] class, [5] pollutant, [6..16] a..h,  *)
(* rf, Vmin, Vmax, [17] equation.                                          *)
LdvLines ==
  { <<"Sector", "Subsector", "", "Euro Standard", "Pollutant", "", "", "", "", "", "",
      "", "", "", "", "", "Equation">>,
    <<"Light Commercial Vehicles", "Diesel <3.5 t", "", "5", "CO",
      <<21, -2>>, <<5, -2>>, <<-3, -3>>, <<-3, -4>>, <<2, -5>>, <<4, -1>>, <<0, 0>>, <<0, 0>>,
      <<0, 0>>, <<1, 1>>, <<11, 1>>, "Equation 1">>,
    <<"Light Commercial Vehicles", "Gasoline <3.5 t", "", "6c", "NOx",
      <<0, 0>>, <<0, 0>>, <<0, 0>>, <<1, -5>>, <<-2, -3>>, <<15, -2>>, <<0, 0>>, <<0, 0>>,
      <<25, -2>>, <<1, 1>>, <<11, 1>>, "Equation 17">>,
    <<"Light Commercial Vehicles", "Diesel <3.5 t", "", "6", "PM",
      <<1, -1>>, <<2, -1>>, <<3, -1>>, <<4, -1>>, <<5, -1>>, <<6, -1>>, <<7, -1>>, <<8, -1>>,
      <<0, 0>>, <<1, 1>>, <<11, 1>>, "Equation 2">> }

(* Lines a heavy duty file may hold: the header, a row of Eq_hdv_15, a    *)
(* row of Eq_hdv_0, a row with a negative equation number and a row with  *)
(* the number of an equation list_equation_hdv does not have.             *)
(* Fields: [1] HDV or BUS, [2] type, [4] technology, [5] pollutant,       *)
(* [6] load, [7] slope, [9..18] a..g, Vmin, Vmax, equation number.        *)
HdvLines ==
  { <<"Type", "Subsector", "", <<"Technology">>, "Pollutant", "Load", "Slope", "",
      "", "", "", "", "", "", "", "", "", "">>,
    <<"HDV", "Rigid <=7.5 t", "", <<"HD Euro I", " 91/542/EEC Stage I">>, "CO", "0", "0%", "",
      <<2, -4>>, <<-3, -2>>, <<25, -1>>, <<0, 0>>, <<0, 0>>, <<0, 0>>, <<0, 0>>, <<12, 0>>, <<86, 0>>, <<15, 0>>>>,
    <<"BUS", "Urban Buses Midi <=15 t", "", <<"HD Euro V", " EGR">>, "NOx", "100", "6%", "",
      <<305, -1>>, <<98, -2>>, <<-4, -1>>, <<0, 0>>, <<0, 0>>, <<0, 0>>, <<0, 0>>, <<12, 0>>, <<86, 0>>, <<0, 0>>>>,
    <<"HDV", "Rigid <=7.5 t", "", <<"HD Euro V", " EGR">>, "PM", "100", "6%", "",
      <<0, 0>>, <<0, 0>>, <<0, 0>>, <<0, 0>>, <<0, 0>>, <<0, 0>>, <<0, 0>>, <<12, 0>>, <<86, 0>>, <<-1, 0>>>>,
    <<"HDV", "Rigid <=7.5 t", "", <<"HD Euro I", " 91/542/EEC Stage I">>, "CO", "0", "6%", "",
      <<1, 0>>, <<0, 0>>, <<0, 0>>, <<0, 0>>, <<0, 0>>, <<0, 0>>, <<0, 0>>, <<12, 0>>, <<86, 0>>, <<16, 0>>>> }

(* array[key] = row, on the map of the assigned rows. *)
Assign(array, key, row) ==
  [k \in DOMAIN array \cup {key} |-> IF k = key THEN row ELSE array[k]]

(* One line of the light duty file: the header is skipped, a label with   *)
(* no entry in its dict raises (KeyError) and ends the constructor,       *)
(* another line sets the row it names.                                     *)
LdvLineKnown(line_split) ==
  /\ line_split[2] \in DOMAIN corr_ldv_type
  /\ line_split[4] \in DOMAIN corr_ldv_class
  /\ line_split[5] \in DOMAIN corr_pollutant
  /\ line_split[17] \in DOMAIN corr_ldv_equation

LdvLineKey(line_split) ==
  << corr_ldv_type[line_split[2]],
     index_copert_class_ldv(corr_ldv_class[line_split[4]]),
     index_pollutant(corr_pollutant[line_split[5]]) >>

(* Mutant of LdvLineRow: the label "Equation k" is stored as k. *)
LdvLineRow_EquationUnshifted(line_split) ==
  [i \in 1..12 |-> IF i = 12 THEN Float(corr_ldv_equation[line_split[17]] + 1)
                   ELSE line_split[5 + i]]

LdvLineRow(line_split) ==
  [i \in 1..12 |-> IF i = 12 THEN Float(corr_ldv_equation[line_split[17]])
                   ELSE line_split[5 + i]]

ReadLdvLine ==
  /\ pc = "ldv_file"
  /\ n_ldv < MaxLdvLines
  /\ \E line_split \in LdvLines :
       IF line_split[1] = "Sector"
       THEN pc' = pc /\ ldv_parameter' = ldv_parameter
       ELSE IF ~LdvLineKnown(line_split)
       THEN pc' = "failed" /\ ldv_parameter' = ldv_parameter
       ELSE /\ pc' = pc
            /\ ldv_parameter' =
                 Assign(ldv_parameter, LdvLineKey(line_split), LdvLineRow(line_split))
  /\ n_ldv' = n_ldv + 1
  /\ UNCHANGED <<hdv_parameter, n_hdv, call, outcome, threads, frames>>

(* End of the light duty file: the heavy duty file is opened. *)
CloseLdvFile ==
  /\ pc = "ldv_file"
  /\ pc' = "hdv_file"
  /\ n_ldv' = 0
  /\ UNCHANGED <<ldv_parameter, hdv_parameter, n_hdv, call, outcome, threads, frames>>

HdvLineKnown(line_split) ==
  /\ line_split[1] \in DOMAIN corr_hdv_or_bus
  /\ line_split[2] \in DOMAIN corr_hdv_type
  /\ hdv_tech(line_split[4]) \in DOMAIN corr_tech
  /\ line_split[5] \in DOMAIN corr_pollutant
  /\ line_split[6] \in DOMAIN corr_load
  /\ line_split[7] \in DOMAIN corr_slope

HdvLineKey(line_split) ==
  << index_vehicle_type(corr_hdv_or_bus[line_split[1]]),
     corr_hdv_type[line_split[2]],
     corr_tech[hdv_tech(line_split[4])],
     index_pollutant(corr_pollutant[line_split[5]]),
     corr_load[line_split[6]],
     corr_slope[line_split[7]] >>

HdvLineRow(line_split) == [i \in 1..10 |-> line_split[8 + i]]

ReadHdvLine ==
  /\ pc = "hdv_file"
  /\ n_hdv < MaxHdvLines
  /\ \E line_split \in HdvLines :
       IF line_split[1] = "Type"
       THEN pc' = pc /\ hdv_parameter' = hdv_parameter
       ELSE IF ~HdvLineKnown(line_split)
       THEN pc' = "failed" /\ hdv_parameter' = hdv_parameter
       ELSE /\ pc' = pc
            /\ hdv_parameter' =
                 Assign(hdv_parameter, HdvLineKey(line_split), HdvLineRow(line_split))
  /\ n_hdv' = n_hdv + 1
  /\ UNCHANGED <<ldv_parameter, n_ldv, call, outcome, threads, frames>>

(* End of the heavy duty file: the constructor returns. *)
CloseHdvFile ==
  /\ pc = "hdv_file"
  /\ pc' = "ready"
  /\ n_hdv' = 0
  /\ UNCHANGED <<ldv_parameter, hdv_parameter, n_ldv, call, outcome, threads, frames>>

----------------------------------------------------------------------------
(* Emission. *)

ErrOnlyGasolineDiesel == "Only emission factors for gasoline and diesel vehicles are available."
ErrOnlyPassengerCars == "Only emission factors for passenger cars are available."

(* TypeError of "distance * None". *)
TypeError == "TypeError"

(* The emissions in g.  ambient_temperature is read nowhere. *)
Emission(pollutant, speed, distance, vehicle_type, engine_type, copert_class, engine_capacity) ==
  IF vehicle_type = vehicle_type_passenger_car THEN
    IF engine_type = engine_type_gasoline THEN
      LET hef == HEFGasolinePassengerCar(pollutant, speed, copert_class, engine_capacity)
      IN IF hef.kind = "raise" THEN hef
         ELSE IF hef.val = None THEN Raise(TypeError)
         ELSE Return(Times(hef.val, distance))
    ELSE IF engine_type = engine_type_diesel THEN
      LET hef == HEFDieselPassengerCar(pollutant, speed, copert_class, engine_capacity)
      IN IF hef.kind = "raise" THEN hef
         ELSE IF hef.val = None THEN Raise(TypeError)
         ELSE Return(Times(hef.val, distance))
    ELSE Raise(ErrOnlyGasolineDiesel)
  ELSE Raise(ErrOnlyPassengerCars)

----------------------------------------------------------------------------
(* Evaluation calls on the constructed object.  The arguments are drawn   *)
(* from the enumerations of the class and from sample speeds (km/h) and   *)
(* engine capacities (l) around the breakpoints of the resolvers.         *)
Pollutants == pollutant_CO..pollutant_VOC
Classes == class_PRE_ECE..class_Euro_6c
Speeds == {Float(s) : s \in {0 - 5, 0, 5, 10, 50, 60, 80, 90, 100, 110, 130, 135}}
Capacities == {<<5, -1>>, <<8, -1>>, <<1, 0>>, <<14, -1>>, <<16, -1>>, <<2, 0>>, <<25, -1>>}
EngineTypes == {engine_type_gasoline, engine_type_diesel, engine_type_LPG}
VehicleCategories ==
  {vehicle_type_passenger_car, vehicle_type_heavy_duty_vehicle, vehicle_type_bus}
HdvTypes == {hdv_type_rigid_7_5, bus_type_urban_15}
HdvClasses == {class_hdv_Euro_I, class_hdv_Euro_V_EGR}
Loads == {hdv_load_0, hdv_load_100}
Slopes == {slope_0, slope_6}
Distances == {<<2, 0>>, <<25, -1>>}

(* Filler of an argument a call does not have. *)
NoArg == 0 - 1

Request(fn, pollutant, speed, copert_class, engine_capacity, engine_type, vehicle_category, hdv_type, load, slope) ==
  [fn |-> fn, pollutant |-> pollutant, speed |-> speed, copert_class |-> copert_class,
   engine_capacity |-> engine_capacity, engine_type |-> engine_type,
   vehicle_category |-> vehicle_category, hdv_type |-> hdv_type,
   load |-> load, slope |-> slope]

NoCall == Request("", NoArg, nan, NoArg, nan, NoArg, NoArg, NoArg, NoArg, NoArg)

(* A call of Emission: the arguments of the call and the distance. *)
EmissionRequest(pollutant, speed, distance, vehicle_type, engine_type, copert_class, engine_capacity) ==
  [fn |-> "Emission", pollutant |-> pollutant, speed |-> speed, copert_class |-> copert_class,
   engine_capacity |-> engine_capacity, engine_type |-> engine_type,
   vehicle_category |-> vehicle_type, hdv_type |-> NoArg, load |-> NoArg, slope |-> NoArg,
   distance |-> distance]

CallGasoline ==
  /\ pc = "ready"
  /\ \E pollutant \in Pollutants, speed \in Speeds, copert_class \in Classes,
        engine_capacity \in Capacities :
       /\ call' = Request("HEFGasolinePassengerCar", pollutant, speed, copert_class,
                          engine_capacity, NoArg, NoArg, NoArg, NoArg, NoArg)
       /\ outcome' = HEFGasolinePassengerCar(pollutant, speed, copert_class,
                                             engine_capacity)
  /\ pc' = "returned"
  /\ UNCHANGED <<ldv_parameter, hdv_parameter, n_ldv, n_hdv, threads, frames>>

CallDiesel ==
  /\ pc = "ready"
  /\ \E pollutant \in Pollutants, speed \in Speeds, copert_class \in Classes,
        engine_capacity \in Capacities :
       /\ call' = Request("HEFDieselPassengerCar", pollutant, speed, copert_class,
                          engine_capacity, NoArg, NoArg, NoArg, NoArg, NoArg)
       /\ outcome' = HEFDieselPassengerCar(pollutant, speed, copert_class,
                                           engine_capacity)
  /\ pc' = "returned"
  /\ UNCHANGED <<ldv_parameter, hdv_parameter, n_ldv, n_hdv, threads, frames>>

CallLightCommercialVehicle ==
  /\ pc = "ready"
  /\ \E pollutant \in Pollutants, speed \in Speeds, engine_type \in EngineTypes,
        copert_class \in Classes :
       /\ call' = Request("HEFLightCommercialVehicle", pollutant, speed, copert_class,
                          nan, engine_type, NoArg, NoArg, NoArg, NoArg)
       /\ outcome' = HEFLightCommercialVehicle(pollutant, speed, engine_type,
                                               copert_class)
  /\ pc' = "returned"
  /\ UNCHANGED <<ldv_parameter, hdv_parameter, n_ldv, n_hdv, threads, frames>>

(* Mutant of CallHeavyDutyVehicle: the call keeps a row of zeros for the  *)
(* combination it was asked, in self.hdv_parameter.                       *)
CallHeavyDutyVehicle_Caching ==
  /\ pc = "ready"
  /\ \E speed \in Speeds, vehicle_category \in VehicleCategories, hdv_type \in HdvTypes,
        hdv_copert_class \in HdvClasses, pollutant \in Pollutants, load \in Loads,
        slope \in Slopes :
       /\ call' = Request("HEFHeavyDutyVehicle", pollutant, speed, hdv_copert_class,
                          nan, NoArg, vehicle_category, hdv_type, load, slope)
       /\ outcome' = HEFHeavyDutyVehicle(speed, vehicle_category, hdv_type,
                                         hdv_copert_class, pollutant, load, slope)
       /\ hdv_parameter' =
            Assign(hdv_parameter, <<0, hdv_type, hdv_copert_class, 0, load, slope>>,
                   [i \in 1..10 |-> Float(0)])
  /\ pc' = "returned"
  /\ UNCHANGED <<ldv_parameter, n_ldv, n_hdv, threads, frames>>

CallHeavyDutyVehicle ==
  /\ pc = "ready"
  /\ \E speed \in Speeds, vehicle_category \in VehicleCategories, hdv_type \in HdvTypes,
        hdv_copert_class \in HdvClasses, pollutant \in Pollutants, load \in Loads,
        slope \in Slopes :
       /\ call' = Request("HEFHeavyDutyVehicle", pollutant, speed, hdv_copert_class,
                          nan, NoArg, vehicle_category, hdv_type, load, slope)
       /\ outcome' = HEFHeavyDutyVehicle(speed, vehicle_category, hdv_type,
                                         hdv_copert_class, pollutant, load, slope)
  /\ pc' = "returned"
  /\ UNCHANGED <<ldv_parameter, hdv_parameter, n_ldv, n_hdv, threads, frames>>

CallEmission ==
  /\ pc = "ready"
  /\ \E pollutant \in {pollutant_CO, pollutant_HC},
        speed \in {Float(0), Float(5), Float(50)},
        distance \in Distances,
        vehicle_type \in {vehicle_type_passenger_car, vehicle_type_light_commercial_vehicule,
                          vehicle_type_heavy_duty_vehicle},
        engine_type \in EngineTypes,
        copert_class \in {class_PRE_ECE, class_Euro_3_GDI, class_Euro_6},
        engine_capacity \in {<<5, -1>>, <<16, -1>>} :
       /\ call' = EmissionRequest(pollutant, speed, distance, vehicle_type, engine_type,
                                  copert_class, engine_capacity)
       /\ outcome' = Emission(pollutant, speed, distance, vehicle_type, engine_type,
                              copert_class, engine_capacity)
  /\ pc' = "returned"
  /\ UNCHANGED <<ldv_parameter, hdv_parameter, n_ldv, n_hdv, threads, frames>>

(* A formula of the library called on the object: list_equation_ldv[n] on *)
(* a..h, rf and V, or list_equation_hdv[n] on a..g and x.  The slots hold  *)
(* numbers, one of them at most another number or nan.                    *)
CallEquation ==
  /\ pc = "ready"
  /\ \E i \in 0..8, v \in {nan, Float(7)}, rf \in {Float(0), <<25, -2>>}, V \in {Float(50)} :
       LET s == [j \in 1..8 |-> IF j = i THEN v ELSE <<j, -1>>]
       IN \/ \E n \in 0..16 :
               /\ call' = Request("list_equation_ldv", NoArg, V, NoArg, nan, NoArg, NoArg,
                                  NoArg, NoArg, NoArg)
                           @@ [n |-> n, slots |-> s, rf |-> rf]
               /\ outcome' = Return(list_equation_ldv(n, s[1], s[2], s[3], s[4], s[5], s[6],
                                                      s[7], s[8], rf, V))
          \/ \E n \in 0..15 :
               /\ i < 8 /\ rf = Float(0)
               /\ call' = Request("list_equation_hdv", NoArg, V, NoArg, nan, NoArg, NoArg,
                                  NoArg, NoArg, NoArg)
                           @@ [n |-> n, slots |-> SubSeq(s, 1, 7), rf |-> rf]
               /\ outcome' = Return(list_equation_hdv(n, s[1], s[2], s[3], s[4], s[5], s[6],
                                                      s[7], V))
  /\ pc' = "returned"
  /\ UNCHANGED <<ldv_parameter, hdv_parameter, n_ldv, n_hdv, threads, frames>>

(* The caller takes the outcome; the object is ready for the next call. *)
NextCall ==
  /\ pc = "returned"
  /\ pc' = "ready"
  /\ call' = NoCall
  /\ outcome' = Return(None)
  /\ UNCHANGED <<ldv_parameter, hdv_parameter, n_ldv, n_hdv, threads, frames>>

----------------------------------------------------------------------------
(* Calls made by several threads on the one constructed object.  A thread *)
(* holds the arguments and the locals of its call; the threads share the  *)
(* object: the class attributes and the two loaded arrays.                *)

(* Bound: threads calling the object. *)
MaxThreads == 2

Threads == 1..MaxThreads

ThreadIdle == [pc |-> "idle", call |-> NoCall, outcome |-> Return(None)]

(* Calls the threads make: one of each resolver on rows the files may     *)
(* have set, and one of Emission.                                          *)
ThreadRequests ==
  { Request("HEFGasolinePassengerCar", pollutant_CO, Float(80), class_PRE_ECE, <<16, -1>>,
            NoArg, NoArg, NoArg, NoArg, NoArg),
    Request("HEFDieselPassengerCar", pollutant_NOx, Float(90), class_Euro_6, <<16, -1>>,
            NoArg, NoArg, NoArg, NoArg, NoArg),
    Request("HEFLightCommercialVehicle", pollutant_CO, Float(50), class_Euro_5, nan,
            engine_type_diesel, NoArg, NoArg, NoArg, NoArg),
    Request("HEFLightCommercialVehicle", pollutant_CO, Float(130), class_Euro_3, nan,
            engine_type_diesel, NoArg, NoArg, NoArg, NoArg),
    Request("HEFHeavyDutyVehicle", pollutant_CO, Float(50), class_hdv_Euro_I, nan,
            NoArg, vehicle_type_heavy_duty_vehicle, hdv_type_rigid_7_5, hdv_load_0, slope_0),
    Request("HEFHeavyDutyVehicle", pollutant_NOx, Float(5), class_hdv_Euro_V_EGR, nan,
            NoArg, vehicle_type_bus, bus_type_urban_15, hdv_load_100, slope_6),
    EmissionRequest(pollutant_CO, Float(50), <<25, -1>>, vehicle_type_passenger_car,
                    engine_type_gasoline, class_Euro_6, <<16, -1>>) }

(* The method a request names, on the arguments of the request. *)
Resolve(request) ==
  CASE request.fn = "HEFGasolinePassengerCar" ->
         HEFGasolinePassengerCar(request.pollutant, request.speed, request.copert_class,
                                 request.engine_capacity)
    [] request.fn = "HEFDieselPassengerCar" ->
         HEFDieselPassengerCar(request.pollutant, request.speed, request.copert_class,
                               request.engine_capacity)
    [] request.fn = "HEFLightCommercialVehicle" ->
         HEFLightCommercialVehicle(request.pollutant, request.speed, request.engine_type,
                                   request.copert_class)
    [] request.fn = "HEFHeavyDutyVehicle" ->
         HEFHeavyDutyVehicle(request.speed, request.vehicle_category, request.hdv_type,
                             request.copert_class, request.pollutant, request.load,
                             request.slope)
    [] request.fn = "Emission" ->
         Emission(request.pollutant, request.speed, request.distance,
                  request.vehicle_category, request.engine_type, request.copert_class,
                  request.engine_capacity)

(* A thread enters a method: the arguments are its own. *)
ThreadCall(t) ==
  /\ pc = "ready"
  /\ threads[t].pc = "idle"
  /\ \E request \in ThreadRequests :
       threads' = [threads EXCEPT ![t] = [pc |-> "called", call |-> request,
                                          outcome |-> Return(None)]]
  /\ UNCHANGED <<pc, ldv_parameter, hdv_parameter, n_ldv, n_hdv, call, outcome, frames>>

(* Mutant of ThreadEvaluate: the speed is kept in an attribute of the     *)
(* object, which holds the speed of the thread that entered last (here:   *)
(* of the highest thread in a call).                                       *)
ThreadEvaluate_SharedSpeed(t) ==
  /\ pc = "ready"
  /\ threads[t].pc = "called"
  /\ LET last == CHOOSE u \in Threads :
                   /\ threads[u].pc /= "idle"
                   /\ \A v \in Threads : threads[v].pc /= "idle" => v <= u
         request == [threads[t].call EXCEPT !.speed = threads[last].call.speed]
     IN threads' = [threads EXCEPT ![t] = [pc |-> "returned", call |-> threads[t].call,
                                           outcome |-> Resolve(request)]]
  /\ UNCHANGED <<pc, ldv_parameter, hdv_parameter, n_ldv, n_hdv, call, outcome, frames>>

(* The body of the method: it reads the attributes of the object and      *)
(* assigns locals only.                                                    *)
ThreadEvaluate(t) ==
  /\ pc = "ready"
  /\ threads[t].pc = "called"
  /\ threads' = [threads EXCEPT ![t] = [pc |-> "returned", call |-> threads[t].call,
                                        outcome |-> Resolve(threads[t].call)]]
  /\ UNCHANGED <<pc, ldv_parameter, hdv_parameter, n_ldv, n_hdv, call, outcome, frames>>

(* The caller of the thread takes the outcome. *)
ThreadReturn(t) ==
  /\ pc = "ready"
  /\ threads[t].pc = "returned"
  /\ threads' = [threads EXCEPT ![t] = ThreadIdle]
  /\ UNCHANGED <<pc, ldv_parameter, hdv_parameter, n_ldv, n_hdv, call, outcome, frames>>

----------------------------------------------------------------------------
(* A call followed method by method.  A frame is a method entered: its    *)
(* arguments, its position ("entry", "nested" while a method it called    *)
(* runs, "resumed" when that method has left) and what the method it      *)
(* called returned or raised.                                              *)

(* Calls followed: the sample of each method, and the light commercial    *)
(* resolver over the classes.                                              *)
FrameRequests ==
  ThreadRequests
  \cup { Request("HEFLightCommercialVehicle", pollutant, speed, copert_class, nan,
                 engine_type, NoArg, NoArg, NoArg, NoArg) :
           pollutant \in {pollutant_CO, pollutant_HC}, speed \in {Float(0), Float(50)},
           copert_class \in Classes, engine_type \in {engine_type_gasoline, engine_type_diesel} }
  \cup { EmissionRequest(pollutant_HC, Float(50), <<2, 0>>, vehicle_type, engine_type_diesel,
                         class_PRE_ECE, <<16, -1>>) :
           vehicle_type \in {vehicle_type_passenger_car, vehicle_type_bus} }

(* Mutant of NestedRequest: the light commercial resolver calls itself    *)
(* with the class before its own.                                          *)
NestedRequest_ClassBefore(request) ==
  IF request.fn = "HEFLightCommercialVehicle" /\ ~Eq(request.speed, <<0, 0>>)
     /\ request.copert_class >= class_Euro_2 /\ request.copert_class <= class_Euro_4
  THEN [request EXCEPT !.copert_class = request.copert_class - 1]
  ELSE NoCall

(* The method a method calls before it returns, with its arguments; NoCall *)
(* when it calls none.                                                     *)
NestedRequest(request) ==
  IF request.fn = "HEFLightCommercialVehicle" /\ ~Eq(request.speed, <<0, 0>>)
     /\ request.copert_class >= class_Euro_2 /\ request.copert_class <= class_Euro_4
  THEN [request EXCEPT !.copert_class = class_Euro_1]
  ELSE IF request.fn = "Emission" /\ request.vehicle_category = vehicle_type_passenger_car
          /\ request.engine_type \in {engine_type_gasoline, engine_type_diesel}
  THEN Request(IF request.engine_type = engine_type_gasoline
               THEN "HEFGasolinePassengerCar" ELSE "HEFDieselPassengerCar",
               request.pollutant, request.speed, request.copert_class,
               request.engine_capacity, NoArg, NoArg, NoArg, NoArg, NoArg)
  ELSE NoCall

(* What a method does with the outcome of the method it called. *)
Resume(request, nested) ==
  IF nested.kind = "raise" THEN nested
  ELSE IF request.fn = "Emission"
  THEN IF nested.val = None THEN Raise(TypeError)
       ELSE Return(Times(nested.val, request.distance))
  ELSE LcvReduction(nested.val, request.pollutant, request.engine_type,
                    request.copert_class)

Frame(request) == [call |-> request, at |-> "entry", nested |-> Return(None)]

(* A method of the object is called. *)
FrameEnter ==
  /\ pc = "ready"
  /\ frames = <<>>
  /\ \E request \in FrameRequests :
       /\ frames' = <<Frame(request)>>
       /\ call' = request
  /\ pc' = "called"
  /\ UNCHANGED <<ldv_parameter, hdv_parameter, n_ldv, n_hdv, outcome, threads>>

(* The method on top calls another method. *)
FrameCall ==
  /\ pc = "called"
  /\ LET top == frames[Len(frames)]
     IN /\ top.at = "entry"
        /\ NestedRequest(top.call) /= NoCall
        /\ frames' = [frames EXCEPT ![Len(frames)].at = "nested"]
                     \o <<Frame(NestedRequest(top.call))>>
  /\ UNCHANGED <<pc, ldv_parameter, hdv_parameter, n_ldv, n_hdv, call, outcome, threads>>

(* The method on top returns or raises: to the method that called it, or  *)
(* to the caller of the object.                                            *)
FrameReturn ==
  /\ pc = "called"
  /\ LET depth == Len(frames)
         top == frames[depth]
         result == IF top.at = "resumed" THEN Resume(top.call, top.nested)
                   ELSE Resolve(top.call)
     IN /\ top.at = "resumed" \/ (top.at = "entry" /\ NestedRequest(top.call) = NoCall)
        /\ IF depth = 1
           THEN /\ frames' = <<>>
                /\ outcome' = result
                /\ pc' = "returned"
           ELSE /\ frames' = [SubSeq(frames, 1, depth - 1) EXCEPT
                                ![depth - 1].at = "resumed",
                                ![depth - 1].nested = result]
                /\ outcome' = outcome
                /\ pc' = pc
  /\ UNCHANGED <<ldv_parameter, hdv_parameter, n_ldv, n_hdv, call, threads>>

Init ==
  /\ pc = "ldv_file"
  /\ ldv_parameter = [k \in {} |-> NanRow(ldv_parameter_shape[4])]
  /\ hdv_parameter = [k \in {} |-> NanRow(hdv_parameter_shape[7])]
  /\ n_ldv = 0
  /\ n_hdv = 0
  /\ call = NoCall
  /\ outcome = Return(None)
  /\ threads = [t \in Threads |-> ThreadIdle]
  /\ frames = <<>>

Next ==
  \/ ReadLdvLine
  \/ CloseLdvFile
  \/ ReadHdvLine
  \/ CloseHdvFile
  \/ CallGasoline
  \/ CallDiesel
  \/ CallLightCommercialVehicle
  \/ CallHeavyDutyVehicle
  \/ CallEmission
  \/ NextCall

Spec == Init /\ [][Next]_vars

(* The constructor, then calls by the threads in any interleaving. *)
NextThreads ==
  \/ ReadLdvLine
  \/ CloseLdvFile
  \/ ReadHdvLine
  \/ CloseHdvFile
  \/ \E t \in Threads : ThreadCall(t)
  \/ \E t \in Threads : ThreadEvaluate(t)
  \/ \E t \in Threads : ThreadReturn(t)

SpecThreads == Init /\ [][NextThreads]_vars

(* The object and calls of the formulas of its library. *)
NextLibrary ==
  \/ ReadLdvLine
  \/ CloseLdvFile
  \/ ReadHdvLine
  \/ CloseHdvFile
  \/ CallEquation
  \/ NextCall

SpecLibrary == Init /\ [][NextLibrary]_vars

(* The object and calls followed method by method; a method entered runs. *)
NextFrames ==
  \/ ReadLdvLine
  \/ CloseLdvFile
  \/ ReadHdvLine
  \/ CloseHdvFile
  \/ FrameEnter
  \/ FrameCall
  \/ FrameReturn
  \/ NextCall

SpecFrames == Init /\ [][NextFrames]_vars /\ WF_vars(FrameCall \/ FrameReturn)

----------------------------------------------------------------------------
(* Properties. *)

Returned(fn) == pc = "returned" /\ call.fn = fn

PassengerCarCall ==
  pc = "returned" /\ call.fn \in {"HEFGasolinePassengerCar", "HEFDieselPassengerCar"}

(* A speed in [10, 130]. *)
InPassengerCarRange(V) == Ge(V, <<1, 1>>) /\ Le(V, <<13, 1>>)

(* C1: for each of the four resolvers and for all other arguments, a call *)
(* with speed == 0 returns exactly 0.                                     *)
C1_ZeroSpeedReturnsZero ==
  (pc = "returned" /\ Eq(call.speed, <<0, 0>>)) => outcome = Return(Literal(<<0, 0>>))

(* C2, as stated: the gasoline and the diesel passenger car resolvers     *)
(* raise the out-of-domain error for every speed < 10 and every speed     *)
(* > 130, for every class, pollutant and engine capacity.                 *)
C2_OutOfRangeAlwaysRaises ==
  (PassengerCarCall /\ (Lt(call.speed, <<1, 1>>) \/ Gt(call.speed, <<13, 1>>)))
    => outcome = Raise(ErrSpeedRange)

(* C2, amended: they raise the out-of-domain error for every speed < 10   *)
(* other than 0 and every speed > 130, for every class, pollutant and     *)
(* engine capacity, except the diesel resolver with class Euro3_GDI,      *)
(* which raises its undefined-combination error at every speed; at speed  *)
(* 0 they return 0.  They never clamp and never return a value for a      *)
(* non-zero speed outside [10, 130].                                      *)
C2_OutOfRangeRaisesButZero ==
  (PassengerCarCall /\ (Lt(call.speed, <<1, 1>>) \/ Gt(call.speed, <<13, 1>>)))
    => IF call.fn = "HEFDieselPassengerCar" /\ call.copert_class = class_Euro_3_GDI
       THEN outcome = Raise(ErrEuro3GDIDiesel)
       ELSE IF Eq(call.speed, <<0, 0>>) THEN outcome = Return(Literal(<<0, 0>>))
       ELSE outcome = Raise(ErrSpeedRange)

C2_Witness ==
  /\ Returned("HEFGasolinePassengerCar")
  /\ Gt(call.speed, <<13, 1>>)
  /\ outcome = Raise(ErrSpeedRange)

(* C3: the diesel passenger car resolver with class Euro3_GDI raises the  *)
(* undefined-combination error for every pollutant, engine capacity and   *)
(* speed, 0 and the speeds outside [10, 130] included.                    *)
C3_DieselEuro3GDIRaises ==
  (Returned("HEFDieselPassengerCar") /\ call.copert_class = class_Euro_3_GDI)
    => outcome = Raise(ErrEuro3GDIDiesel)

C3_Witness ==
  /\ Returned("HEFDieselPassengerCar")
  /\ call.copert_class = class_Euro_3_GDI
  /\ Eq(call.speed, <<0, 0>>)
  /\ outcome = Raise(ErrEuro3GDIDiesel)

(* C4: every call of a resolver returns a numeric factor or raises an     *)
(* error; it returns neither None nor a nan.                              *)
C4_FactorOrError ==
  pc = "returned"
    => \/ outcome.kind = "raise"
       \/ outcome.kind = "return" /\ outcome.val /= None /\ outcome.val /= NaNValue

(* C5, as stated: the gasoline resolver with class ECE_15_02 and an       *)
(* engine capacity < 0.8 l raises the capacity-below-0.8-l error for      *)
(* every pollutant and every speed.                                       *)
C5_LowCapacityRaisesAtEverySpeed ==
  (Returned("HEFGasolinePassengerCar") /\ call.copert_class = class_ECE_15_02
   /\ Lt(call.engine_capacity, <<8, -1>>))
    => outcome = Raise(ErrCapacityBelow08)

(* C5, amended: it raises the capacity-below-0.8-l error for every        *)
(* pollutant and every speed in [10, 130]; at speed 0 it returns 0 and at *)
(* any other speed outside [10, 130] it raises the out-of-domain error.   *)
C5_LowCapacityRaisesInRange ==
  (Returned("HEFGasolinePassengerCar") /\ call.copert_class = class_ECE_15_02
   /\ Lt(call.engine_capacity, <<8, -1>>))
    => IF InPassengerCarRange(call.speed) THEN outcome = Raise(ErrCapacityBelow08)
       ELSE IF Eq(call.speed, <<0, 0>>) THEN outcome = Return(Literal(<<0, 0>>))
       ELSE outcome = Raise(ErrSpeedRange)

C5_Witness ==
  /\ Returned("HEFGasolinePassengerCar")
  /\ call.copert_class = class_ECE_15_02
  /\ call.engine_capacity = <<5, -1>>
  /\ call.pollutant = pollutant_HC
  /\ InPassengerCarRange(call.speed)
  /\ outcome = Raise(ErrCapacityBelow08)

(* C6: for the light commercial vehicle resolver with class Euro2, Euro3  *)
(* or Euro4, a pollutant in {CO, NOx, VOC, PM} with a defined reduction   *)
(* entry and a non-zero speed, the factor is the factor of class Euro1    *)
(* for the same pollutant, speed and engine type, times (1 - the          *)
(* reduction percentage of the engine type, the class counted from Euro2  *)
(* and the pollutant); for Diesel, Euro2, CO the percentage is 0.         *)
C6_ClassOffset(copert_class) ==
  IF copert_class = class_Euro_2 THEN 0 ELSE IF copert_class = class_Euro_3 THEN 1 ELSE 2

C6_PollutantColumn(pollutant) ==
  IF pollutant = pollutant_CO THEN 0 ELSE IF pollutant = pollutant_NOx THEN 1
  ELSE IF pollutant = pollutant_VOC THEN 2 ELSE 3

C6_Percentage ==
  ldv_reduction_percentage[call.engine_type + 1][C6_ClassOffset(call.copert_class) + 1]
                          [C6_PollutantColumn(call.pollutant) + 1]

C6_Case ==
  /\ Returned("HEFLightCommercialVehicle")
  /\ call.copert_class \in {class_Euro_2, class_Euro_3, class_Euro_4}
  /\ call.pollutant \in {pollutant_CO, pollutant_NOx, pollutant_VOC, pollutant_PM}
  /\ call.engine_type \in {engine_type_gasoline, engine_type_diesel}
  /\ ~isnan(C6_Percentage)
  /\ ~Eq(call.speed, <<0, 0>>)

C6_Euro1TimesReduction ==
  C6_Case
    => LET euro_1 == HEFLightCommercialVehicle(call.pollutant, call.speed,
                                               call.engine_type, class_Euro_1)
       IN /\ euro_1.kind = "return"
          /\ outcome = Return(Times(euro_1.val,
                                    Sub(<<1, 0>>, Mul(<<1, -2>>, C6_Percentage))))
          /\ (call.engine_type = engine_type_diesel /\ call.copert_class = class_Euro_2
              /\ call.pollutant = pollutant_CO)
               => outcome = Return(Times(euro_1.val, <<1, 0>>))

(* Diesel, Euro3, CO at 50 km/h: the Euro1 quadratic times 0.82. *)
C6_Witness ==
  /\ C6_Case
  /\ call.engine_type = engine_type_diesel
  /\ call.copert_class = class_Euro_3
  /\ call.pollutant = pollutant_CO
  /\ call.speed = Float(50)
  /\ outcome = Return([f |-> "quadratic",
                       x |-> <<<<223, -6>>, <<-26, -3>>, <<1076, -3>>, <<5, 1>>>>,
                       k |-> <<<<82, -2>>>>])

(* C7: the light commercial vehicle resolver with class Euro2, Euro3 or   *)
(* Euro4 and pollutant HC or FC raises the undefined-combination error    *)
(* of that range for every engine type and every non-zero speed.          *)
C7_HCAndFCRaiseUndefinedCombination ==
  (Returned("HEFLightCommercialVehicle")
   /\ call.copert_class \in {class_Euro_2, class_Euro_3, class_Euro_4}
   /\ call.pollutant \in {pollutant_HC, pollutant_FC}
   /\ ~Eq(call.speed, <<0, 0>>))
    => outcome = Raise(ErrLcvEuro2to4)

(* C8: the gasoline resolver with class PRE_ECE, pollutant CO and an      *)
(* engine capacity >= 0.8 l returns the power law 281 * V^(-0.63) for     *)
(* 10 <= V < 100 and the linear form 0.112 * V + 4.32 for                 *)
(* 100 <= V <= 130; V = 110 yields 16.64.                                 *)
C8_Case ==
  /\ Returned("HEFGasolinePassengerCar")
  /\ call.copert_class = class_PRE_ECE
  /\ call.pollutant = pollutant_CO
  /\ Ge(call.engine_capacity, <<8, -1>>)
  /\ InPassengerCarRange(call.speed)

C8_PreECECOBranches ==
  C8_Case
    => /\ Lt(call.speed, <<1, 2>>)
            => outcome = Return([f |-> "power", x |-> <<<<281, 0>>, <<-63, -2>>, call.speed>>,
                                 k |-> <<>>])
       /\ Ge(call.speed, <<1, 2>>)
            => outcome = Return([f |-> "linear", x |-> <<<<112, -3>>, <<432, -2>>, call.speed>>,
                                 k |-> <<>>])
       /\ Eq(call.speed, <<11, 1>>)
            => outcome.kind = "return" /\ Evaluate(outcome.val) = <<1664, -2>>

C8_Witness ==
  /\ C8_Case
  /\ call.speed = Float(100)
  /\ outcome = Return([f |-> "linear", x |-> <<<<112, -3>>, <<432, -2>>, <<1, 2>>>>, k |-> <<>>])

(* C9, as stated: the diesel resolver, for a class in Euro1..Euro6c and a *)
(* speed in [10, 130], reads the row of the pollutant, the class ordinal  *)
(* and the capacity band and evaluates it with EF_30 when class <= Euro4  *)
(* (except Euro4 CO), for Euro5 with EF_31 for PM and EF_27 otherwise,    *)
(* for Euro6 and Euro6c with EF_26 for CO and EF_27 otherwise.            *)
C9_Ordinal(copert_class) ==
  IF copert_class <= class_Euro_3 THEN copert_class - class_Euro_1
  ELSE copert_class - class_Euro_1 - 1

C9_Band(engine_capacity) ==
  IF Lt(engine_capacity, <<14, -1>>) THEN 0 ELSE IF Lt(engine_capacity, <<2, 0>>) THEN 1 ELSE 2

C9_Row ==
  efc_diesel_passenger_car[call.pollutant + 1][C9_Ordinal(call.copert_class) + 1]
                          [C9_Band(call.engine_capacity) + 1]

C9_Formula ==
  IF call.copert_class <= class_Euro_4 THEN "EF_30"
  ELSE IF call.copert_class = class_Euro_5
    THEN IF call.pollutant = pollutant_PM THEN "EF_31" ELSE "EF_27"
  ELSE IF call.pollutant = pollutant_CO THEN "EF_26" ELSE "EF_27"

(* The slots a..f each formula reads, then the speed. *)
C9_Value ==
  IF C9_Formula = "EF_31"
  THEN [f |-> "EF_31", x |-> SubSeq(C9_Row, 1, 5) \o <<call.speed>>, k |-> <<>>]
  ELSE [f |-> C9_Formula, x |-> C9_Row \o <<call.speed>>, k |-> <<>>]

C9_Case ==
  /\ Returned("HEFDieselPassengerCar")
  /\ call.copert_class \in {class_Euro_1, class_Euro_2, class_Euro_3, class_Euro_4,
                            class_Euro_5, class_Euro_6, class_Euro_6c}
  /\ call.pollutant \in {pollutant_CO, pollutant_HC, pollutant_NOx, pollutant_PM}
  /\ ~(call.copert_class = class_Euro_4 /\ call.pollutant = pollutant_CO)
  /\ InPassengerCarRange(call.speed)

C9_RowAlwaysEvaluated == C9_Case => outcome = Return(C9_Value)

(* C9, amended: as stated for the pollutants CO, HC, NOx and PM, unless   *)
(* the engine capacity is < 1.4 l, the class is Euro1, Euro2 or Euro3 and *)
(* the row is undefined: the call then raises the no-formula error and    *)
(* evaluates nothing.  Euro6, NOx, 1.6 l, 90 km/h is evaluated with EF_27 *)
(* on the Euro6/NOx/1.4-2.0 l row.                                        *)
C9_RowEvaluatedUnlessUndefined ==
  /\ C9_Case
       => IF C9_Band(call.engine_capacity) = 0 /\ isnan(C9_Row[1])
             /\ call.copert_class <= class_Euro_3
          THEN outcome = Raise(ErrDieselBelow14)
          ELSE outcome = Return(C9_Value)
  /\ (Returned("HEFDieselPassengerCar") /\ call.copert_class = class_Euro_6
      /\ call.pollutant = pollutant_NOx /\ call.engine_capacity = <<16, -1>>
      /\ call.speed = Float(90))
       => outcome = Return([f |-> "EF_27",
                            x |-> <<<<436, -3>>, <<1, -2>>, <<-539, -5>>, <<-102, -6>>,
                                    <<29, -6>>, <<-461, -3>>, <<9, 1>>>>,
                            k |-> <<>>])

C9_Witness ==
  /\ C9_Case
  /\ call.copert_class = class_Euro_6
  /\ call.pollutant = pollutant_NOx
  /\ call.engine_capacity = <<16, -1>>
  /\ call.speed = Float(90)
  /\ outcome.kind = "return"
  /\ outcome.val.f = "EF_27"

(* C10: the heavy duty resolver returns a factor only when the row        *)
(* selected by (category, type, class, pollutant, load, slope) holds an   *)
(* equation number >= 0; when the row is the undefined row or its         *)
(* equation number is negative, the call raises the no-formula error and  *)
(* evaluates no equation.                                                  *)
C10_RowSelected ==
  /\ Returned("HEFHeavyDutyVehicle")
  /\ HasIndexPollutant(call.pollutant)
  /\ HasIndexVehicleType(call.vehicle_category)

C10_Row ==
  HdvRow(<<index_vehicle_type(call.vehicle_category), call.hdv_type, call.copert_class,
           index_pollutant(call.pollutant), call.load, call.slope>>)

C10_FactorOnlyWithEquation ==
  /\ (Returned("HEFHeavyDutyVehicle") /\ outcome.kind = "return")
       => C10_RowSelected /\ Ge(C10_Row[10], <<0, 0>>) /\ outcome.val /= None
  /\ (C10_RowSelected /\ (C10_Row = NanRow(10) \/ Lt(C10_Row[10], <<0, 0>>)))
       => outcome = Raise(ErrHdvNoFormula)

C10_Witness ==
  /\ C10_RowSelected
  /\ Lt(C10_Row[10], <<0, 0>>)
  /\ outcome = Raise(ErrHdvNoFormula)

(* C11: Emission returns distance times the hot emission factor of the    *)
(* matching resolver for passenger cars with a gasoline or diesel engine, *)
(* propagates any error of that resolver, and raises an error for every   *)
(* other vehicle type and every other passenger car engine type.          *)
C11_Resolver ==
  IF call.engine_type = engine_type_gasoline
  THEN HEFGasolinePassengerCar(call.pollutant, call.speed, call.copert_class,
                               call.engine_capacity)
  ELSE HEFDieselPassengerCar(call.pollutant, call.speed, call.copert_class,
                             call.engine_capacity)

C11_DistanceTimesFactorOrError ==
  Returned("Emission")
    => IF call.vehicle_category /= vehicle_type_passenger_car
       THEN outcome = Raise(ErrOnlyPassengerCars)
       ELSE IF call.engine_type \notin {engine_type_gasoline, engine_type_diesel}
       THEN outcome = Raise(ErrOnlyGasolineDiesel)
       ELSE IF C11_Resolver.kind = "raise" THEN outcome = C11_Resolver
       ELSE outcome = Return(Times(C11_Resolver.val, call.distance))

(* C12: no evaluation call (Emission or one of the four resolvers),       *)
(* whether it returns or raises, changes an entry of the loaded           *)
(* ldv_parameter and hdv_parameter arrays: from the end of the            *)
(* constructor on, every step leaves both arrays as they are.  (The       *)
(* embedded tables are class attributes no method assigns.)               *)
C12_CallsLeaveRepositoryUnchanged ==
  [][(pc \in {"ready", "returned"})
       => (ldv_parameter' = ldv_parameter /\ hdv_parameter' = hdv_parameter)]_vars

(* A call on loaded arrays has raised. *)
C12_Witness ==
  /\ pc = "returned"
  /\ call.fn \in {"HEFLightCommercialVehicle", "HEFHeavyDutyVehicle"}
  /\ DOMAIN ldv_parameter /= {}
  /\ DOMAIN hdv_parameter /= {}
  /\ outcome.kind = "raise"

C14_NoFileDefectAtEvaluation ==
  (C10_RowSelected /\ C10_Row /= NanRow(10))
    => \/ outcome.kind = "return"
       \/ outcome = Raise(ErrHdvNoFormula)

(* C15: every coefficient row of the object, in the embedded tables and  *)
(* in the loaded arrays, is fully defined (no slot is nan) or fully       *)
(* undefined (every slot is nan).                                          *)
C15_RowWhole(row) ==
  \/ \A i \in 1..Len(row) : ~isnan(row[i])
  \/ \A i \in 1..Len(row) : isnan(row[i])

C15_RowsWhole ==
  /\ \A p \in 1..4, c \in 1..7 : C15_RowWhole(efc_gasoline_passenger_car[p][c])
  /\ \A c \in 1..13 : C15_RowWhole(efc_gasoline_passenger_car_fc[1][c])
  /\ \A p \in 1..4, c \in 1..7, b \in 1..3 : C15_RowWhole(efc_diesel_passenger_car[p][c][b])
  /\ \A e \in 1..2, p \in 1..5, c \in 1..2 : C15_RowWhole(ldv_parameter_pre_euro_1[e][p][c])
  /\ \A k \in DOMAIN ldv_parameter : C15_RowWhole(ldv_parameter[k])
  /\ \A k \in DOMAIN hdv_parameter : C15_RowWhole(hdv_parameter[k])

(* C16, as stated: the gasoline resolver with class PRE_ECE, pollutant    *)
(* CO, an engine capacity >= 0.8 l and speed 80 km/h returns              *)
(* 281 * 80^(-0.63), which is 9.43 g/km to two decimals.                  *)
(*                                                                         *)
(* a * x^b is bracketed without computing a power of a fraction: for      *)
(* b = -n/d with n, d > 0 and positive a, x, lo, hi,                      *)
(*   lo <= a * x^b  iff  lo^d * x^n <= a^d                                *)
(*   a * x^b <= hi  iff  a^d <= hi^d * x^n.                               *)
(* The integer powers are bounded from below and from above with          *)
(* mantissas of six digits, rounded down and up at every product.         *)

(* x > 0 with a mantissa of six digits (or 1000000). *)
C16_Widen(x) ==
  IF x[1] >= 100000 THEN x
  ELSE LET k == CHOOSE k \in 1..5 : x[1] * 10^k \in 100000..999999
       IN <<x[1] * 10^k, x[2] - k>>

(* q * 10^e cut to six digits; up = 1 rounds up, up = 0 rounds down. *)
C16_Cut(q, e, up) ==
  LET k == CHOOSE k \in 0..4 : q \div 10^k \in 100000..999999
  IN <<(q \div 10^k) + (IF k = 0 THEN 0 ELSE up), e + k>>

(* A bound of x * y, below (up = 0) or above (up = 1). *)
C16_Mul(x, y, up) ==
  LET a == C16_Widen(x)
      b == C16_Widen(y)
      a1 == a[1] \div 1000
      a0 == a[1] % 1000
      b1 == b[1] \div 1000
      b0 == b[1] % 1000
      q == a1 * b1 * 1000 + a1 * b0 + a0 * b1 + ((a0 * b0) \div 1000) + up
  IN C16_Cut(q, a[2] + b[2] + 3, up)

RECURSIVE C16_Pow(_, _, _)
C16_Pow(x, n, up) ==
  IF n = 0 THEN <<1, 0>>
  ELSE IF n % 2 = 0 THEN LET h == C16_Pow(x, n \div 2, up) IN C16_Mul(h, h, up)
  ELSE C16_Mul(C16_Pow(x, n - 1, up), x, up)

(* x <= y, for two widened numbers. *)
C16_Le(x, y) ==
  LET a == C16_Widen(x)
      b == C16_Widen(y)
  IN a[2] < b[2] \/ (a[2] = b[2] /\ a[1] <= b[1])

(* lo <= coef * base^expo <= hi, for expo = -num / den < 0. *)
C16_PowerBetween(coef, expo, base, lo, hi) ==
  LET num == 0 - expo[1]
      den == 10 ^ (0 - expo[2])
      below == C16_Mul(C16_Pow(lo, den, 1), C16_Pow(base, num, 1), 1)
      above == C16_Mul(C16_Pow(hi, den, 0), C16_Pow(base, num, 0), 0)
  IN /\ C16_Le(below, C16_Pow(coef, den, 0))
     /\ C16_Le(C16_Pow(coef, den, 1), above)

C16_Case ==
  /\ C8_Case
  /\ call.speed = Float(80)

C16_Value943 ==
  C16_Case
    => /\ outcome = Return([f |-> "power", x |-> <<<<281, 0>>, <<-63, -2>>, <<8, 1>>>>, k |-> <<>>])
       /\ C16_PowerBetween(outcome.val.x[1], outcome.val.x[2], outcome.val.x[3],
                           <<9425, -3>>, <<9435, -3>>)

(* C16, amended: it returns 281 * 80^(-0.63), which is 17.77 g/km to two  *)
(* decimals (between 17.77 and 17.78).                                     *)
C16_Value1777 ==
  C16_Case
    => /\ outcome = Return([f |-> "power", x |-> <<<<281, 0>>, <<-63, -2>>, <<8, 1>>>>, k |-> <<>>])
       /\ C16_PowerBetween(outcome.val.x[1], outcome.val.x[2], outcome.val.x[3],
                           <<1777, -2>>, <<1778, -2>>)

C16_Witness ==
  /\ C16_Case
  /\ outcome.kind = "return"
  /\ outcome.val.f = "power"
  /\ C16_PowerBetween(outcome.val.x[1], outcome.val.x[2], outcome.val.x[3],
                      <<17765, -3>>, <<17775, -3>>)

----------------------------------------------------------------------------
(* C17.  The rows of the coefficient tables and of the light-vehicle       *)
(* repository a call selects.                                              *)
C17_InRange ==
  /\ pc = "returned"
  /\ call.speed /= Float(0)
  /\ call.fn \in {"HEFGasolinePassengerCar", "HEFDieselPassengerCar"}
       => InPassengerCarRange(call.speed)

C17_GasolineSentinel ==
  /\ Returned("HEFGasolinePassengerCar") /\ C17_InRange
  /\ InGlobalClassIndex(call.copert_class)
  /\ call.pollutant + 1 <= Len(efc_gasoline_passenger_car)
  /\ efc_gasoline_passenger_car[call.pollutant + 1][IndexOf(call.copert_class) + 1]
       = NanRow(6)

C17_DieselSentinel ==
  /\ Returned("HEFDieselPassengerCar") /\ C17_InRange
  /\ InGlobalClassIndex(call.copert_class)
  /\ call.pollutant + 1 <= Len(efc_diesel_passenger_car)
  /\ efc_diesel_passenger_car[call.pollutant + 1][IndexOf(call.copert_class) + 1]
                             [DieselCapacityBand(call.engine_capacity) + 1]
       = NanRow(6)

C17_LcvSentinel ==
  /\ Returned("HEFLightCommercialVehicle") /\ C17_InRange
  /\ call.engine_type \in {engine_type_gasoline, engine_type_diesel}
  /\ \/ /\ call.copert_class >= class_Euro_5
        /\ HasIndexPollutant(call.pollutant)
        /\ LdvRow(call.engine_type, index_copert_class_ldv(call.copert_class),
                  index_pollutant(call.pollutant)) = NanRow(ldv_parameter_shape[4])
     \/ /\ call.copert_class \in {class_Improved_Conventional} \cup (class_Euro_1..class_Euro_4)
        /\ HasIndexPollutantPreEuro4(call.pollutant)
        /\ ldv_parameter_pre_euro_1[call.engine_type + 1]
             [index_pollutant_pre_euro_4(call.pollutant) + 1]
             [IF call.copert_class = class_Improved_Conventional THEN 1 ELSE 2]
             = NanRow(5)

(* C17: a gasoline, diesel or light commercial call with a non-zero speed  *)
(* in the domain that selects a row of NaN sentinels raises an error or    *)
(* returns a literal formula or a constant of the code, and no such call   *)
(* returns a value computed from a sentinel.                               *)
C17_NoFactorFromSentinelRow ==
  /\ (C17_GasolineSentinel \/ C17_DieselSentinel \/ C17_LcvSentinel)
       => \/ outcome.kind = "raise"
          \/ outcome.val.f \in {"Euro4_CO", "constant"}
  /\ (C17_InRange /\ outcome.kind = "return"
      /\ call.fn \in {"HEFGasolinePassengerCar", "HEFDieselPassengerCar",
                      "HEFLightCommercialVehicle"})
       => outcome.val /= NaNValue

C17_Witness ==
  /\ C17_DieselSentinel
  /\ call.copert_class = class_Euro_4 /\ call.pollutant = pollutant_CO
  /\ outcome.kind = "return" /\ outcome.val.f = "Euro4_CO"

----------------------------------------------------------------------------
(* C18.  The band of the common comparison: 0 below 1.4 l, 1 from 1.4 l   *)
(* and below 2.0 l, 2 from 2.0 l on.                                       *)
C18_Band(engine_capacity) ==
  IF Lt(engine_capacity, <<14, -1>>) THEN 0 ELSE IF Lt(engine_capacity, <<2, 0>>) THEN 1 ELSE 2

C18_InRangeCall(fn) == Returned(fn) /\ InPassengerCarRange(call.speed)

(* C18: every branch of the gasoline and of the diesel resolver that       *)
(* depends on the engine capacity places a capacity in the band of the     *)
(* common comparison, 2.0 l included in the third band: gasoline PRE_ECE   *)
(* NOx and the diesel rows of Euro 1 and later take the third band's       *)
(* formula or row exactly from 2.0 l on, and so do diesel pre-Euro NOx     *)
(* (the formula above 2.0 l) and gasoline Improved Conventional and Open   *)
(* Loop (no formula in the third band).                                    *)
C18_SameBandInEveryBranch ==
  /\ (C18_InRangeCall("HEFGasolinePassengerCar") /\ call.copert_class = class_PRE_ECE
      /\ call.pollutant = pollutant_NOx /\ Ge(call.engine_capacity, <<8, -1>>))
       => (C18_Band(call.engine_capacity) = 2
             <=> outcome = Return(quadratic(<<1, -4>>, <<3, -2>>, <<15, -1>>, call.speed)))
  /\ (C9_Case /\ C18_Band(call.engine_capacity) = 2) => outcome = Return(C9_Value)
  /\ (C18_InRangeCall("HEFDieselPassengerCar") /\ ~InGlobalClassIndex(call.copert_class)
      /\ call.copert_class /= class_Euro_3_GDI /\ call.pollutant = pollutant_NOx)
       => (C18_Band(call.engine_capacity) = 2
             <=> outcome = Return(quadratic(<<133, -6>>, <<-18, -3>>, <<1331, -3>>, call.speed)))
  /\ (C18_InRangeCall("HEFGasolinePassengerCar")
      /\ call.copert_class \in {class_Improved_Conventional, class_Open_loop}
      /\ Ge(call.engine_capacity, <<8, -1>>))
       => (C18_Band(call.engine_capacity) = 2 <=> outcome.kind = "raise")

----------------------------------------------------------------------------
(* C19.  The constant of a class group and a speed bracket. *)
C19_Group(copert_class) ==
  IF copert_class \in {class_Euro_1, class_Euro_2} THEN 1
  ELSE IF copert_class = class_Euro_3_GDI THEN 2
  ELSE 3

C19_Bracket(V) ==
  IF Le(V, Float(60)) THEN 1 ELSE IF Le(V, Float(90)) THEN 2 ELSE 3

C19_Constant(group, bracket) ==
  <<<<<<322, -5>>, <<184, -5>>, <<19, -4>>>>,
    <<<<66, -4>>, <<296, -5>>, <<695, -5>>>>,
    <<<<128, -5>>, <<836, -6>>, <<119, -5>>>>>>[group][bracket]

C19_Case ==
  /\ Returned("HEFGasolinePassengerCar")
  /\ call.pollutant = pollutant_PM
  /\ InPassengerCarRange(call.speed)

(* C19: the gasoline resolver with PM and a speed in [10, 130] returns,    *)
(* for Euro1 and Euro2, for Euro3_GDI, and for Euro3 and Euro4, the        *)
(* constant of the class group and of the speed bracket (V <= 60,          *)
(* 60 < V <= 90, V > 90), whatever the engine capacity; for Euro5 and      *)
(* later it returns EF_26 on the row of PM and of the class.               *)
C19_PMConstantByGroupAndBracket ==
  /\ (C19_Case /\ call.copert_class \in class_Euro_1..class_Euro_4)
       => outcome = Return([f |-> "constant",
                            x |-> <<C19_Constant(C19_Group(call.copert_class),
                                                 C19_Bracket(call.speed))>>,
                            k |-> <<>>])
  /\ (C19_Case /\ call.copert_class \in class_Euro_5..class_Euro_6c)
       => outcome = Return([f |-> "EF_26",
                            x |-> efc_gasoline_passenger_car[pollutant_PM + 1]
                                    [call.copert_class - class_Euro_4 + 4]
                                  \o <<call.speed>>,
                            k |-> <<>>])

C19_Witness ==
  /\ C19_Case /\ call.copert_class = class_Euro_3_GDI /\ call.speed = Float(60)
  /\ call.engine_capacity = <<5, -1>>
  /\ outcome = Return(constant(<<66, -4>>))

C19_WitnessTable ==
  /\ C19_Case /\ call.copert_class = class_Euro_6 /\ outcome.kind = "return"
  /\ outcome.val.f = "EF_26"

----------------------------------------------------------------------------
(* C20.  The formula of a class and a pollutant, and the slots of the row *)
(* it reads.                                                               *)
C20_Formula ==
  IF call.copert_class <= class_Euro_4 THEN "EF_25"
  ELSE IF call.pollutant \in {pollutant_CO, pollutant_PM} THEN "EF_26"
  ELSE IF call.pollutant = pollutant_NOx THEN "EF_27"
  ELSE IF call.copert_class = class_Euro_5 THEN "EF_28"
  ELSE "EF_26"

C20_Slots ==
  CASE C20_Formula = "EF_25" -> 5
    [] C20_Formula = "EF_28" -> 4
    [] OTHER -> 6

C20_Ordinal ==
  CASE call.copert_class = class_Euro_1 -> 1
    [] call.copert_class = class_Euro_2 -> 2
    [] call.copert_class = class_Euro_3 -> 3
    [] call.copert_class = class_Euro_4 -> 4
    [] call.copert_class = class_Euro_5 -> 5
    [] call.copert_class = class_Euro_6 -> 6
    [] call.copert_class = class_Euro_6c -> 7

C20_Row == efc_gasoline_passenger_car[call.pollutant + 1][C20_Ordinal]

C20_Case ==
  /\ Returned("HEFGasolinePassengerCar")
  /\ InPassengerCarRange(call.speed)
  /\ call.copert_class \in {class_Euro_1, class_Euro_2, class_Euro_3, class_Euro_4,
                            class_Euro_5, class_Euro_6, class_Euro_6c}
  /\ \/ call.pollutant \in {pollutant_CO, pollutant_HC, pollutant_NOx}
     \/ call.pollutant = pollutant_PM /\ call.copert_class >= class_Euro_5

(* C20: the gasoline resolver, for a class Euro1..Euro4, Euro5, Euro6 or   *)
(* Euro6c, a pollutant CO, HC or NOx (or PM from Euro5 on) and a speed in  *)
(* [10, 130], returns the value of the formula of the class and pollutant  *)
(* (EF_25 up to Euro4; then EF_26 for CO and PM, EF_27 for NOx, EF_28 for  *)
(* HC of Euro5 and EF_26 for HC of Euro6 and Euro6c) on the row            *)
(* efc_gasoline_passenger_car[pollutant][ordinal of the class].            *)
C20_RowAndFormulaByClass ==
  C20_Case => outcome = Return([f |-> C20_Formula,
                                x |-> SubSeq(C20_Row, 1, C20_Slots) \o <<call.speed>>,
                                k |-> <<>>])

C20_Witness ==
  /\ C20_Case /\ call.copert_class = class_Euro_5 /\ call.pollutant = pollutant_HC
  /\ outcome.kind = "return" /\ outcome.val.f = "EF_28"
  /\ outcome.val.x[1] = efc_gasoline_passenger_car[2][5][1]

----------------------------------------------------------------------------
C21_Case ==
  /\ Returned("HEFDieselPassengerCar")
  /\ call.copert_class = class_Euro_4
  /\ call.pollutant = pollutant_CO
  /\ InPassengerCarRange(call.speed)

(* C21: the diesel resolver with class Euro4, pollutant CO and a speed in  *)
(* [10, 130] returns 17.5e-3 + 86.42 / (1 + exp(-(V + 117.67) / (-21.99))) *)
(* for every engine capacity, with no coefficient of a row in it, and      *)
(* never raises.                                                           *)
C21_LiteralForEveryCapacity ==
  C21_Case => outcome = Return([f |-> "Euro4_CO",
                                x |-> <<<<175, -4>>, <<8642, -2>>, <<11767, -2>>, <<-2199, -2>>, call.speed>>,
                                k |-> <<>>])

C21_Witness ==
  /\ C21_Case /\ call.engine_capacity = <<5, -1>> /\ call.speed = Float(130)
  /\ efc_diesel_passenger_car[pollutant_CO + 1][4][engine_capacity_less_1_4 + 1] = NanRow(6)
  /\ outcome.kind = "return" /\ outcome.val.f = "Euro4_CO"

----------------------------------------------------------------------------
(* C22.  The speed a row's formula is evaluated at. *)
C22_Clamped(Vmin, Vmax, s) ==
  IF Gt(s, Vmax) \/ Gt(Vmin, Vmax) THEN Vmax ELSE IF Lt(s, Vmin) THEN Vmin ELSE s

C22_PreEuro1Row ==
  ldv_parameter_pre_euro_1[call.engine_type + 1]
    [index_pollutant_pre_euro_4(call.pollutant) + 1]
    [IF call.copert_class = class_Improved_Conventional THEN 1 ELSE 2]

C22_PreEuro1Case ==
  /\ Returned("HEFLightCommercialVehicle") /\ call.speed /= Float(0)
  /\ call.copert_class \in {class_Improved_Conventional, class_Euro_1}
  /\ call.engine_type \in {engine_type_gasoline, engine_type_diesel}
  /\ HasIndexPollutantPreEuro4(call.pollutant)
  /\ C22_PreEuro1Row /= NanRow(5)

C22_LdvKey ==
  <<call.engine_type, index_copert_class_ldv(call.copert_class), index_pollutant(call.pollutant)>>

C22_LdvCase ==
  /\ Returned("HEFLightCommercialVehicle") /\ call.speed /= Float(0)
  /\ call.copert_class \in {class_Euro_5, class_Euro_6, class_Euro_6c}
  /\ HasIndexPollutant(call.pollutant)
  /\ C22_LdvKey \in DOMAIN ldv_parameter

C22_HdvKey ==
  <<index_vehicle_type(call.vehicle_category), call.hdv_type, call.copert_class,
    index_pollutant(call.pollutant), call.load, call.slope>>

C22_HdvCase ==
  /\ Returned("HEFHeavyDutyVehicle") /\ call.speed /= Float(0)
  /\ HasIndexPollutant(call.pollutant)
  /\ HasIndexVehicleType(call.vehicle_category)
  /\ C22_HdvKey \in DOMAIN hdv_parameter
  /\ Ge(hdv_parameter[C22_HdvKey][10], <<0, 0>>) /\ int(hdv_parameter[C22_HdvKey][10]) <= 15

(* C22: in the table branches (light commercial Conventional and Euro1,    *)
(* light commercial Euro5 and later, heavy duty), a call with a non-zero   *)
(* speed s that selects a defined row returns the row's formula at         *)
(* min(max(Vmin, s), Vmax) and raises nothing, whatever s.                 *)
C22_FormulaAtClampedSpeed ==
  /\ C22_PreEuro1Case
       => LET row == C22_PreEuro1Row
          IN outcome = Return(quadratic(row[3], row[4], row[5],
                                        C22_Clamped(row[1], row[2], call.speed)))
  /\ C22_LdvCase
       => LET row == ldv_parameter[C22_LdvKey]
          IN outcome = Return(list_equation_ldv(int(row[12]), row[1], row[2], row[3], row[4],
                                                row[5], row[6], row[7], row[8], row[9],
                                                C22_Clamped(row[10], row[11], call.speed)))
  /\ C22_HdvCase
       => LET row == hdv_parameter[C22_HdvKey]
          IN outcome = Return(list_equation_hdv(int(row[10]), row[1], row[2], row[3], row[4],
                                                row[5], row[6], row[7],
                                                C22_Clamped(row[8], row[9], call.speed)))

C22_Witness ==
  /\ C22_HdvCase /\ call.speed = Float(5)
  /\ hdv_parameter[C22_HdvKey][8] = Float(12)
  /\ outcome.kind = "return"
  /\ outcome.val.x[Len(outcome.val.x)] = Float(12)

C22_WitnessAbove ==
  /\ C22_LdvCase /\ call.speed = Float(130)
  /\ ldv_parameter[C22_LdvKey][11] = Float(110)
  /\ outcome.kind = "return"
  /\ outcome.val.x[Len(outcome.val.x)] = Float(110)

----------------------------------------------------------------------------
(* C23.  The formula an equation label of the light duty file names. *)
C23_FormulaOfLabel ==
  ("Equation 1" :> "Eq_1") @@ ("Equation 9" :> "Eq_9") @@ ("Equation 12" :> "Eq_12")
  @@ ("Equation 16" :> "Eq_16") @@ ("Equation 17" :> "Eq_17")

C23_Key ==
  <<call.engine_type, call.copert_class - class_Euro_5, index_pollutant(call.pollutant)>>

C23_Case ==
  /\ Returned("HEFLightCommercialVehicle") /\ call.speed /= Float(0)
  /\ call.copert_class \in {class_Euro_5, class_Euro_6, class_Euro_6c}
  /\ HasIndexPollutant(call.pollutant)
  /\ C23_Key \in DOMAIN ldv_parameter

(* The line of the file the selected row was read from. *)
C23_LineRead(line_split) ==
  /\ line_split[1] /= "Sector"
  /\ LdvLineKnown(line_split)
  /\ LdvLineKey(line_split) = C23_Key
  /\ \A i \in 1..11 : ldv_parameter[C23_Key][i] = line_split[5 + i]

(* C23: a light commercial call with class Euro5, Euro6 or Euro6c and a    *)
(* non-zero speed, on a row read from a line of label "Equation k",        *)
(* returns Eq_k on slots of a..h of that row and on the clamped speed,     *)
(* times (1 - rf), and rf is nowhere else in the result.                   *)
C23_RowFormulaAndReduction ==
  \A line_split \in LdvLines :
    (C23_Case /\ C23_LineRead(line_split))
      => LET row == ldv_parameter[C23_Key]
             n == Len(outcome.val.x)
         IN /\ outcome.kind = "return"
            /\ outcome.val.f = C23_FormulaOfLabel[line_split[17]]
            /\ n - 1 \in 1..8
            /\ \A i \in 1..(n - 1) : outcome.val.x[i] = row[i]
            /\ outcome.val.x[n] = C22_Clamped(row[10], row[11], call.speed)
            /\ outcome.val.k = <<Sub(Float(1), row[9])>>

C23_Witness ==
  /\ C23_Case /\ call.copert_class = class_Euro_6c /\ call.pollutant = pollutant_NOx
  /\ call.engine_type = engine_type_gasoline /\ call.speed = Float(50)
  /\ ldv_parameter[C23_Key][9] = <<25, -2>>
  /\ outcome.kind = "return" /\ outcome.val.f = "Eq_17" /\ outcome.val.k = <<<<75, -2>>>>

----------------------------------------------------------------------------
(* C24.  The slots the shape of a formula uses: the first ones, by their  *)
(* number, for Eq_1..Eq_17 and for Eq_hdv_0..Eq_hdv_15.                    *)
C24_LdvUsed == <<6, 8, 4, 2, 8, 5, 4, 3, 4, 3, 3, 3, 3, 5, 3, 4, 6>>
C24_HdvUsed == <<3, 4, 3, 4, 5, 3, 3, 2, 4, 3, 5, 3, 3, 3, 4, 3>>

C24_Used ==
  IF call.fn = "list_equation_ldv" THEN C24_LdvUsed[call.n + 1] ELSE C24_HdvUsed[call.n + 1]

(* The formula of the call on the slots s. *)
C24_Result(s) ==
  IF call.fn = "list_equation_ldv"
  THEN list_equation_ldv(call.n, s[1], s[2], s[3], s[4], s[5], s[6], s[7], s[8],
                         call.rf, call.speed)
  ELSE list_equation_hdv(call.n, s[1], s[2], s[3], s[4], s[5], s[6], s[7], call.speed)

C24_Replaced(i, v) == [call.slots EXCEPT ![i] = v]

C24_Case ==
  /\ pc = "returned"
  /\ call.fn \in {"list_equation_ldv", "list_equation_hdv"}

(* C24: the result of a formula of the library is the same when a slot     *)
(* its shape does not use holds another value, nan included.              *)
C24_UnusedSlotIgnored ==
  C24_Case =>
    \A i \in (C24_Used + 1)..Len(call.slots), v \in {nan, Float(3)} :
      (\A j \in 1..Len(call.slots) : ~isnan(call.slots[j]))
        => C24_Result(C24_Replaced(i, v)) = outcome.val

(* The same for the values that are numbers. *)
C24_UnusedNumberIgnored ==
  C24_Case =>
    \A i \in (C24_Used + 1)..Len(call.slots), v \in {Float(3)} :
      (\A j \in 1..Len(call.slots) : ~isnan(call.slots[j]))
        => C24_Result(C24_Replaced(i, v)) = outcome.val

(* A slot the shape uses changes the result. *)
C24_UsedSlotCounts ==
  C24_Case =>
    \A i \in 1..C24_Used :
      (\A j \in 1..Len(call.slots) : ~isnan(call.slots[j]))
        => C24_Result(C24_Replaced(i, Float(3))) /= outcome.val

----------------------------------------------------------------------------
C25_Case == Returned("HEFGasolinePassengerCar") /\ InPassengerCarRange(call.speed)

C25_CapacityErrors ==
  {Raise(ErrCapacityBelow08), Raise(ErrCapacityImprovedConventional),
   Raise(ErrCapacityOpenLoop)}

(* C25: the gasoline resolver with a speed in [10, 130] raises the         *)
(* capacity error of the class, for every pollutant, below 0.8 l for the   *)
(* seven classes PRE_ECE..Open_loop and above 2.0 l for Improved           *)
(* Conventional and Open Loop; it raises no capacity error at 2.0 l for    *)
(* these two classes, nor at any capacity for Euro1 and later.             *)
C25_CapacityRejection ==
  /\ (C25_Case /\ call.copert_class <= class_ECE_15_04 /\ Lt(call.engine_capacity, <<8, -1>>))
       => outcome = Raise(ErrCapacityBelow08)
  /\ (C25_Case /\ call.copert_class \in {class_Improved_Conventional, class_Open_loop})
       => IF Lt(call.engine_capacity, <<8, -1>>) \/ Gt(call.engine_capacity, <<2, 0>>)
          THEN outcome = Raise(IF call.copert_class = class_Improved_Conventional
                               THEN ErrCapacityImprovedConventional
                               ELSE ErrCapacityOpenLoop)
          ELSE outcome \notin C25_CapacityErrors
  /\ (C25_Case /\ call.copert_class >= class_Euro_1) => outcome \notin C25_CapacityErrors

C25_Witness ==
  /\ C25_Case /\ call.copert_class = class_Improved_Conventional
  /\ call.engine_capacity = <<2, 0>> /\ call.pollutant = pollutant_CO
  /\ outcome.kind = "return"

C25_WitnessRaise ==
  /\ C25_Case /\ call.copert_class = class_Open_loop /\ call.engine_capacity = <<25, -1>>
  /\ call.pollutant = pollutant_PM /\ outcome = Raise(ErrCapacityOpenLoop)

----------------------------------------------------------------------------
C26_GasolineCase ==
  /\ Returned("HEFGasolinePassengerCar") /\ InPassengerCarRange(call.speed)
  /\ call.copert_class = class_Euro_3_GDI /\ call.pollutant /= pollutant_PM

C26_LcvBelowEuro1Case ==
  /\ Returned("HEFLightCommercialVehicle") /\ call.speed /= Float(0)
  /\ call.copert_class < class_Euro_1
  /\ call.copert_class /= class_Improved_Conventional

C26_LcvGDICase ==
  /\ Returned("HEFLightCommercialVehicle") /\ call.speed /= Float(0)
  /\ call.copert_class = class_Euro_3_GDI

(* C26: a call raises an error and returns no factor, for a non-zero       *)
(* speed of the domain, when it is the gasoline resolver with Euro3_GDI    *)
(* and a pollutant other than PM (the class is not in the list of          *)
(* ordinals), the light commercial resolver with a class below Euro1 other *)
(* than Improved Conventional (no entry in the dict of the branch), or the *)
(* light commercial resolver with Euro3_GDI.                               *)
C26_UnmappedClassRaises ==
  /\ C26_GasolineCase => outcome = Raise(ValueError)
  /\ C26_LcvBelowEuro1Case => outcome = Raise(KeyError)
  /\ C26_LcvGDICase => outcome.kind = "raise"

C26_Witness ==
  /\ C26_LcvGDICase /\ call.pollutant = pollutant_CO /\ call.engine_type = engine_type_diesel
  /\ outcome = Raise(KeyError)

C26_WitnessGasoline == C26_GasolineCase /\ call.pollutant = pollutant_NOx

C26_WitnessBelowEuro1 == C26_LcvBelowEuro1Case /\ call.copert_class = class_Open_loop

----------------------------------------------------------------------------
C27_Case ==
  /\ Returned("HEFLightCommercialVehicle") /\ call.speed /= Float(0)
  /\ call.copert_class \in {class_Improved_Conventional, class_Euro_1}
  /\ call.engine_type \in {engine_type_gasoline, engine_type_diesel}

(* The row of the engine type, pollutant (CO, NOx, VOC, PM, FC in that    *)
(* order) and class (Conventional, Euro 1).                                *)
C27_Row ==
  ldv_parameter_pre_euro_1[call.engine_type + 1]
    [(CASE call.pollutant = pollutant_CO -> 1 [] call.pollutant = pollutant_NOx -> 2
        [] call.pollutant = pollutant_VOC -> 3 [] call.pollutant = pollutant_PM -> 4
        [] call.pollutant = pollutant_FC -> 5)]
    [IF call.copert_class = class_Improved_Conventional THEN 1 ELSE 2]

C27_NoFormula ==
  \/ call.engine_type = engine_type_gasoline /\ call.pollutant \in {pollutant_PM, pollutant_HC}
  \/ call.engine_type = engine_type_diesel /\ call.pollutant = pollutant_HC

(* C27: the light commercial resolver with Improved Conventional or Euro1  *)
(* and a non-zero speed raises for gasoline with PM or HC and for diesel   *)
(* with HC; for the other pairs of gasoline or diesel and CO, NOx, VOC, PM *)
(* or FC the row of the pre-Euro 1 table holds five numbers and the call   *)
(* returns a*V^2 + b*V + c on its a, b, c, at the speed kept within the    *)
(* row's Vmin and Vmax.                                                    *)
C27_ErrorOrQuadratic ==
  /\ (C27_Case /\ C27_NoFormula) => outcome.kind = "raise"
  /\ (C27_Case /\ ~C27_NoFormula
      /\ call.pollutant \in {pollutant_CO, pollutant_NOx, pollutant_VOC, pollutant_PM,
                             pollutant_FC})
       => /\ \A i \in 1..5 : ~isnan(C27_Row[i])
          /\ outcome = Return([f |-> "quadratic",
                               x |-> <<C27_Row[3], C27_Row[4], C27_Row[5],
                                       C22_Clamped(C27_Row[1], C27_Row[2], call.speed)>>,
                               k |-> <<>>])

C27_Witness ==
  /\ C27_Case /\ call.engine_type = engine_type_diesel /\ call.pollutant = pollutant_PM
  /\ call.copert_class = class_Euro_1 /\ call.speed = Float(50)
  /\ outcome = Return(quadratic(<<45, -6>>, <<-4885, -6>>, <<1932, -4>>, Float(50)))

C27_WitnessRaise ==
  /\ C27_Case /\ call.engine_type = engine_type_gasoline /\ call.pollutant = pollutant_PM
  /\ outcome = Raise(ErrLcvGasolinePMHC)

----------------------------------------------------------------------------
(* C28.  A call in progress, the nesting of the light commercial resolver  *)
(* in it, and its end.                                                     *)
C28_LcvDepth ==
  Cardinality({i \in 1..Len(frames) : frames[i].call.fn = "HEFLightCommercialVehicle"})

C28_OneNestedCall ==
  /\ Len(frames) <= 2
  /\ C28_LcvDepth = 2
       => /\ frames[2].call.copert_class = class_Euro_1
          /\ frames[1].call.copert_class \in class_Euro_2..class_Euro_4
          /\ NestedRequest(frames[2].call) = NoCall
  /\ (pc = "returned" /\ call \in FrameRequests) => outcome = Resolve(call)

(* C28: every call ends, and the light commercial resolver is entered at   *)
(* most twice in a call: the call it makes for Euro2..Euro4 is for Euro1,  *)
(* which calls nothing more; the outcome is then the one of the call       *)
(* taken at once.                                                          *)
C28_TerminatesWithOneNestedCall ==
  /\ []C28_OneNestedCall
  /\ (pc = "called") ~> (pc = "returned")

C28_Witness ==
  /\ pc = "called" /\ C28_LcvDepth = 2
  /\ frames[1].call.copert_class = class_Euro_4 /\ frames[1].at = "nested"
  /\ frames[2].at = "entry"
====
